---------------------------- MODULE Spec2Model ----------------------------
(***************************************************************************)
(* Model of the prop-bench proof kernel, rule tables, truth-table engine   *)
(* and obfuscation generator.                                              *)
(*                                                                         *)
(* A Formula is a tuple whose first element is the node kind:              *)
(*   <<"Atom", name>>, <<"Not", f>>, <<"And", l, r>>, <<"Or", l, r>>,      *)
(*   <<"Implies", l, r>>, <<"Biconditional", l, r>>, <<"Contradiction">>.  *)
(* A Vec is a sequence.  An Option is <<>> (None) or <<x>> (Some(x)).       *)
(***************************************************************************)
EXTENDS Integers, Sequences, FiniteSets

None == <<>>

Some(x) == <<x>>

Unwrap(o) == o[1]

Range(s) == { s[i] : i \in DOMAIN s }

Contains(s, x) == \E i \in DOMAIN s : s[i] = x

(***************************************************************************)
(* models/formula.rs                                                       *)
(***************************************************************************)
Atom(name) == <<"Atom", name>>
Not(f) == <<"Not", f>>
And(l, r) == <<"And", l, r>>
Or(l, r) == <<"Or", l, r>>
Implies(l, r) == <<"Implies", l, r>>
Biconditional(l, r) == <<"Biconditional", l, r>>
Contradiction == <<"Contradiction">>

Kind(f) == f[1]

IsBinary(f) == Kind(f) \in {"And", "Or", "Implies", "Biconditional"}

Rebuild(f, l, r) == <<Kind(f), l, r>>

RECURSIVE atoms(_)
atoms(f) ==
    CASE Kind(f) = "Atom" -> {f[2]}
      [] Kind(f) = "Not" -> atoms(f[2])
      [] IsBinary(f) -> atoms(f[2]) \cup atoms(f[3])
      [] OTHER -> {}

Max(a, b) == IF a >= b THEN a ELSE b

Min(a, b) == IF a <= b THEN a ELSE b

RECURSIVE depth(_)
depth(f) ==
    CASE Kind(f) = "Not" -> 1 + depth(f[2])
      [] IsBinary(f) -> 1 + Max(depth(f[2]), depth(f[3]))
      [] OTHER -> 0

RECURSIVE subformulas(_)
subformulas(f) ==
    CASE Kind(f) = "Not" -> <<f>> \o subformulas(f[2])
      [] IsBinary(f) -> <<f>> \o subformulas(f[2]) \o subformulas(f[3])
      [] OTHER -> <<f>>

RECURSIVE collect_with_paths(_, _)
collect_with_paths(f, current_path) ==
    CASE Kind(f) = "Not" ->
            <<<<current_path, f>>>>
                \o collect_with_paths(f[2], Append(current_path, "Inner"))
      [] IsBinary(f) ->
            <<<<current_path, f>>>>
                \o collect_with_paths(f[2], Append(current_path, "Left"))
                \o collect_with_paths(f[3], Append(current_path, "Right"))
      [] OTHER -> <<<<current_path, f>>>>

subformulas_with_paths(f) == collect_with_paths(f, <<>>)

\* Faulty variant of replace_at_path: a Right step descends into the left operand.
RECURSIVE replace_at_path_left_for_right(_, _, _)
replace_at_path_left_for_right(f, path, replacement) ==
    IF path = <<>> THEN replacement
    ELSE LET step == Head(path)
             rest == Tail(path)
         IN  CASE step = "Inner" /\ Kind(f) = "Not" ->
                     Not(replace_at_path_left_for_right(f[2], rest, replacement))
               [] step \in {"Left", "Right"} /\ IsBinary(f) ->
                     Rebuild(f, replace_at_path_left_for_right(f[2], rest, replacement), f[3])
               [] OTHER -> f

RECURSIVE replace_at_path(_, _, _)
replace_at_path(f, path, replacement) ==
    IF path = <<>> THEN replacement
    ELSE LET step == Head(path)
             rest == Tail(path)
         IN  CASE step = "Inner" /\ Kind(f) = "Not" ->
                     Not(replace_at_path(f[2], rest, replacement))
               [] step = "Left" /\ IsBinary(f) ->
                     Rebuild(f, replace_at_path(f[2], rest, replacement), f[3])
               [] step = "Right" /\ IsBinary(f) ->
                     Rebuild(f, f[2], replace_at_path(f[3], rest, replacement))
               [] OTHER -> f

(***************************************************************************)
(* services/truth_table.rs.  A 32-bit word is the set of its set bits:     *)
(* bit r (0 = least significant) of the word is 1 iff r is in the set.     *)
(***************************************************************************)
Rows32 == 0 .. 31

MASK_32 == Rows32

TAUTOLOGY == Rows32

CONTRADICTION == {}

BitNot32(w) == MASK_32 \ w

var_truth_table(name) ==
    CASE name = "P" -> { r \in Rows32 : (r \div 16) % 2 = 1 }
      [] name = "Q" -> { r \in Rows32 : (r \div 8) % 2 = 1 }
      [] name = "R" -> { r \in Rows32 : (r \div 4) % 2 = 1 }
      [] name = "S" -> { r \in Rows32 : (r \div 2) % 2 = 1 }
      [] name = "T" -> { r \in Rows32 : r % 2 = 1 }
      [] OTHER -> { r \in Rows32 : (r \div 16) % 2 = 1 }

RECURSIVE compute_truth_table(_)
compute_truth_table(f) ==
    CASE Kind(f) = "Atom" -> var_truth_table(f[2])
      [] Kind(f) = "Not" -> BitNot32(compute_truth_table(f[2])) \cap MASK_32
      [] Kind(f) = "And" ->
            compute_truth_table(f[2]) \cap compute_truth_table(f[3])
      [] Kind(f) = "Or" ->
            compute_truth_table(f[2]) \cup compute_truth_table(f[3])
      [] Kind(f) = "Implies" ->
            (BitNot32(compute_truth_table(f[2])) \cup compute_truth_table(f[3]))
                \cap MASK_32
      [] Kind(f) = "Biconditional" ->
            LET a == compute_truth_table(f[2])
                b == compute_truth_table(f[3])
            IN  BitNot32((a \ b) \cup (b \ a)) \cap MASK_32
      [] OTHER -> CONTRADICTION

is_tautology(f) == compute_truth_table(f) = TAUTOLOGY

tt_is_contradiction(f) == compute_truth_table(f) = CONTRADICTION

are_equivalent(f1, f2) == compute_truth_table(f1) = compute_truth_table(f2)


(***************************************************************************)
(* Dynamic engine.  DynTruthTable.bits (a Vec<u64>) is the set of the rows *)
(* whose bit is 1: row r is bit r % 64 of word r / 64.  Rows are           *)
(* 0 .. 2^num_vars - 1, so the padding bits of the last word are never set.*)
(***************************************************************************)
RECURSIVE Pow2(_)
Pow2(n) == IF n = 0 THEN 1 ELSE 2 * Pow2(n - 1)

DynRows(num_vars) == 0 .. (Pow2(num_vars) - 1)

new_var(index, num_vars) ==
    LET block_size == Pow2(num_vars - 1 - index)
    IN  [bits |-> { row \in DynRows(num_vars) : (row \div block_size) % 2 = 0 },
         num_vars |-> num_vars]

dyn_tautology(num_vars) == [bits |-> DynRows(num_vars), num_vars |-> num_vars]

dyn_contradiction(num_vars) == [bits |-> {}, num_vars |-> num_vars]

dyn_not(t) == [bits |-> DynRows(t.num_vars) \ t.bits, num_vars |-> t.num_vars]

dyn_and(t, u) == [bits |-> t.bits \cap u.bits, num_vars |-> t.num_vars]

dyn_or(t, u) == [bits |-> t.bits \cup u.bits, num_vars |-> t.num_vars]

dyn_implies(t, u) == dyn_or(dyn_not(t), u)

dyn_biconditional(t, u) ==
    [bits |-> DynRows(t.num_vars) \ ((t.bits \ u.bits) \cup (u.bits \ t.bits)),
     num_vars |-> t.num_vars]

dyn_is_tautology(t) == t.bits = dyn_tautology(t.num_vars).bits

\* Lexicographic order of the atom names the generator can produce.
Alphabet ==
    <<"A", "B", "C", "D", "E", "F", "G", "H", "I", "J", "K", "L", "M",
      "N", "O", "P", "Q", "R", "S", "T", "U", "V", "W", "X", "Y", "Z">>

AlphaIndex(name) == CHOOSE i \in DOMAIN Alphabet : Alphabet[i] = name

\* Position (0-based) of name in the sorted Vec of the atoms in names.
SortedIndex(name, names) ==
    Cardinality({ a \in names : AlphaIndex(a) < AlphaIndex(name) })

RECURSIVE eval_dyn(_, _, _)
eval_dyn(f, names, num_vars) ==
    CASE Kind(f) = "Atom" ->
            IF f[2] \in names
            THEN new_var(SortedIndex(f[2], names), num_vars)
            ELSE dyn_tautology(num_vars)
      [] Kind(f) = "Not" -> dyn_not(eval_dyn(f[2], names, num_vars))
      [] Kind(f) = "And" ->
            dyn_and(eval_dyn(f[2], names, num_vars), eval_dyn(f[3], names, num_vars))
      [] Kind(f) = "Or" ->
            dyn_or(eval_dyn(f[2], names, num_vars), eval_dyn(f[3], names, num_vars))
      [] Kind(f) = "Implies" ->
            dyn_implies(eval_dyn(f[2], names, num_vars), eval_dyn(f[3], names, num_vars))
      [] Kind(f) = "Biconditional" ->
            dyn_biconditional(eval_dyn(f[2], names, num_vars),
                              eval_dyn(f[3], names, num_vars))
      [] OTHER -> dyn_contradiction(num_vars)

compute_truth_table_dynamic(f) ==
    LET names == atoms(f)
        num_vars == Max(Cardinality(names), 1)
    IN  eval_dyn(f, names, num_vars)

StandardAtoms == {"P", "Q", "R", "S", "T"}

is_tautology_dynamic(f) ==
    IF Cardinality(atoms(f)) <= 5 /\ atoms(f) \subseteq StandardAtoms
    THEN is_tautology(f)
    ELSE dyn_is_tautology(compute_truth_table_dynamic(f))

(***************************************************************************)
(* Semantic oracle and degeneracy validation (services/truth_table.rs).    *)
(***************************************************************************)
RECURSIVE FoldAnd32(_)
FoldAnd32(premises) ==
    IF premises = <<>> THEN TAUTOLOGY
    ELSE compute_truth_table(Head(premises)) \cap FoldAnd32(Tail(premises))

premises_consistent(premises) == FoldAnd32(premises) # CONTRADICTION

entails(premises, conclusion) ==
    (FoldAnd32(premises) \cap (BitNot32(compute_truth_table(conclusion)) \cap MASK_32))
        = CONTRADICTION

single_premise_entails(premises, conclusion) ==
    \E i \in DOMAIN premises :
        (compute_truth_table(premises[i])
            \cap (BitNot32(compute_truth_table(conclusion)) \cap MASK_32))
                = CONTRADICTION

conclusion_negation_available(premises, conclusion) ==
    \E i \in DOMAIN premises :
        compute_truth_table(premises[i])
            = BitNot32(compute_truth_table(conclusion)) \cap MASK_32

RECURSIVE antecedent_chain(_)
antecedent_chain(f) ==
    IF Kind(f) = "Implies" THEN <<f[2]>> \o antecedent_chain(f[3]) ELSE <<>>

conditional_trivial_via_explosion(premises, conclusion) ==
    LET antecedents == antecedent_chain(conclusion)
    IN  \E k \in DOMAIN antecedents :
            \E i \in DOMAIN premises :
                compute_truth_table(premises[i])
                    = BitNot32(compute_truth_table(antecedents[k])) \cap MASK_32

RemoveAt(s, i) == SubSeq(s, 1, i - 1) \o SubSeq(s, i + 1, Len(s))

all_premises_necessary(premises, conclusion) ==
    IF ~entails(premises, conclusion) THEN FALSE
    ELSE \A i \in DOMAIN premises : ~entails(RemoveAt(premises, i), conclusion)

has_redundant_premises(premises) ==
    Len(premises) # Cardinality({ compute_truth_table(premises[i]) : i \in DOMAIN premises })

\* Faulty variant: the conclusion-is-a-tautology check is left out.
validate_theorem_without_tautology_check(premises, conclusion) ==
    IF ~premises_consistent(premises) THEN "ContradictoryPremises"
    ELSE IF \E i \in DOMAIN premises : is_tautology(premises[i])
         THEN "TautologicalPremise"
    ELSE IF single_premise_entails(premises, conclusion) THEN "SinglePremiseEntails"
    ELSE IF conclusion_negation_available(premises, conclusion)
         THEN "NegationOfConclusionAvailable"
    ELSE IF conditional_trivial_via_explosion(premises, conclusion)
         THEN "ConditionalTrivialViaExplosion"
    ELSE IF has_redundant_premises(premises) THEN "RedundantPremises"
    ELSE IF ~all_premises_necessary(premises, conclusion) THEN "UnnecessaryPremise"
    ELSE IF ~entails(premises, conclusion) THEN "InvalidTheorem"
    ELSE "Ok"

\* Faulty variant of validate_theorem: the redundant-premise check runs before
\* the single-premise check.
validate_theorem_redundancy_first(premises, conclusion) ==
    IF ~premises_consistent(premises) THEN "ContradictoryPremises"
    ELSE IF \E i \in DOMAIN premises : is_tautology(premises[i])
         THEN "TautologicalPremise"
    ELSE IF is_tautology(conclusion) THEN "TautologicalConclusion"
    ELSE IF has_redundant_premises(premises) THEN "RedundantPremises"
    ELSE IF single_premise_entails(premises, conclusion) THEN "SinglePremiseEntails"
    ELSE IF conclusion_negation_available(premises, conclusion)
         THEN "NegationOfConclusionAvailable"
    ELSE IF conditional_trivial_via_explosion(premises, conclusion)
         THEN "ConditionalTrivialViaExplosion"
    ELSE IF ~all_premises_necessary(premises, conclusion) THEN "UnnecessaryPremise"
    ELSE IF ~entails(premises, conclusion) THEN "InvalidTheorem"
    ELSE "Ok"

validate_theorem(premises, conclusion) ==
    IF ~premises_consistent(premises) THEN "ContradictoryPremises"
    ELSE IF \E i \in DOMAIN premises : is_tautology(premises[i])
         THEN "TautologicalPremise"
    ELSE IF is_tautology(conclusion) THEN "TautologicalConclusion"
    ELSE IF single_premise_entails(premises, conclusion) THEN "SinglePremiseEntails"
    ELSE IF conclusion_negation_available(premises, conclusion)
         THEN "NegationOfConclusionAvailable"
    ELSE IF conditional_trivial_via_explosion(premises, conclusion)
         THEN "ConditionalTrivialViaExplosion"
    ELSE IF has_redundant_premises(premises) THEN "RedundantPremises"
    ELSE IF ~all_premises_necessary(premises, conclusion) THEN "UnnecessaryPremise"
    ELSE IF ~entails(premises, conclusion) THEN "InvalidTheorem"
    ELSE "Ok"

(***************************************************************************)
(* models/rules/inference.rs                                               *)
(***************************************************************************)
InferenceRules ==
    {"ModusPonens", "ModusTollens", "DisjunctiveSyllogism", "Simplification",
     "Conjunction", "HypotheticalSyllogism", "Addition", "ConstructiveDilemma",
     "NegE"}

premise_count(rule) ==
    CASE rule \in {"Simplification", "Addition"} -> 1
      [] rule = "ConstructiveDilemma" -> 3
      [] OTHER -> 2

requires_formula_input(rule) == rule = "Addition"

\* The index pairs [(0, 1), (1, 0)] and the six permutations, 1-based.
Pairs2 == << <<1, 2>>, <<2, 1>> >>

Perms3 ==
    << <<1, 2, 3>>, <<1, 3, 2>>, <<2, 1, 3>>, <<2, 3, 1>>, <<3, 1, 2>>, <<3, 2, 1>> >>

RECURSIVE Flatten(_)
Flatten(ss) == IF ss = <<>> THEN <<>> ELSE Head(ss) \o Flatten(Tail(ss))

all_conclusions(rule, premises, additional) ==
    CASE rule = "ModusPonens" ->
            IF Len(premises) # 2 THEN <<>>
            ELSE Flatten([k \in 1..2 |->
                    LET a == premises[Pairs2[k][1]]
                        b == premises[Pairs2[k][2]]
                    IN  IF Kind(a) = "Implies" /\ a[2] = b THEN <<a[3]>> ELSE <<>>])
      [] rule = "ModusTollens" ->
            IF Len(premises) # 2 THEN <<>>
            ELSE Flatten([k \in 1..2 |->
                    LET a == premises[Pairs2[k][1]]
                        b == premises[Pairs2[k][2]]
                    IN  IF Kind(a) = "Implies" /\ Kind(b) = "Not" /\ a[3] = b[2]
                        THEN <<Not(a[2])>> ELSE <<>>])
      [] rule = "DisjunctiveSyllogism" ->
            IF Len(premises) # 2 THEN <<>>
            ELSE Flatten([k \in 1..2 |->
                    LET a == premises[Pairs2[k][1]]
                        b == premises[Pairs2[k][2]]
                    IN  IF Kind(a) = "Or" /\ Kind(b) = "Not"
                        THEN (IF b[2] = a[2] THEN <<a[3]>> ELSE <<>>)
                                \o (IF b[2] = a[3] THEN <<a[2]>> ELSE <<>>)
                        ELSE <<>>])
      [] rule = "Simplification" ->
            IF Len(premises) # 1 THEN <<>>
            ELSE IF Kind(premises[1]) = "And"
                 THEN <<premises[1][2], premises[1][3]>> ELSE <<>>
      [] rule = "Conjunction" ->
            IF Len(premises) # 2 THEN <<>>
            ELSE <<And(premises[1], premises[2])>>
      [] rule = "HypotheticalSyllogism" ->
            IF Len(premises) # 2 THEN <<>>
            ELSE Flatten([k \in 1..2 |->
                    LET a == premises[Pairs2[k][1]]
                        b == premises[Pairs2[k][2]]
                    IN  IF Kind(a) = "Implies" /\ Kind(b) = "Implies" /\ a[3] = b[2]
                        THEN <<Implies(a[2], b[3])>> ELSE <<>>])
      [] rule = "Addition" ->
            IF Len(premises) # 1 THEN <<>>
            ELSE IF additional # None
                 THEN <<Or(premises[1], Unwrap(additional)),
                        Or(Unwrap(additional), premises[1])>>
                 ELSE <<>>
      [] rule = "ConstructiveDilemma" ->
            IF Len(premises) # 3 THEN <<>>
            ELSE Flatten([k \in 1..6 |->
                    LET d == premises[Perms3[k][1]]
                        a == premises[Perms3[k][2]]
                        b == premises[Perms3[k][3]]
                    IN  IF /\ Kind(d) = "Or" /\ Kind(a) = "Implies" /\ Kind(b) = "Implies"
                           /\ d[2] = a[2] /\ d[3] = b[2]
                        THEN <<Or(a[3], b[3])>> ELSE <<>>])
      [] rule = "NegE" ->
            IF Len(premises) # 2 THEN <<>>
            ELSE Flatten([k \in 1..2 |->
                    LET a == premises[Pairs2[k][1]]
                        b == premises[Pairs2[k][2]]
                    IN  IF Kind(a) = "Not" /\ a[2] = b THEN <<Contradiction>> ELSE <<>>])
      [] OTHER -> <<>>

\* Faulty variant: any conclusion is accepted once the rule applies to the
\* premises.
rule_verify_any_conclusion(rule, premises, conclusion, additional) ==
    all_conclusions(rule, premises, additional) # <<>>

rule_verify(rule, premises, conclusion, additional) ==
    Contains(all_conclusions(rule, premises, additional), conclusion)

(***************************************************************************)
(* models/rules/equivalence.rs                                             *)
(***************************************************************************)
EquivalenceRules ==
    <<"DoubleNegation", "DeMorgan", "Commutation", "Association", "Distribution",
      "Contraposition", "Implication", "Exportation", "Tautology", "Equivalence">>

\* Faulty variant of the Contraposition arm: the converse q > p instead of
\* the contrapositive ~q > ~p.
contraposition_forms_converse(f) ==
    IF Kind(f) = "Implies" THEN <<Implies(f[3], f[2])>> ELSE <<>>

\* The EquivalenceRule::Contraposition arm of equivalent_forms.
contraposition_forms(f) ==
    (IF Kind(f) = "Implies" THEN <<Implies(Not(f[3]), Not(f[2]))>> ELSE <<>>)
    \o (IF Kind(f) = "Implies" /\ Kind(f[2]) = "Not" /\ Kind(f[3]) = "Not"
        THEN <<Implies(f[3][2], f[2][2])>> ELSE <<>>)

equivalent_forms(rule, f) ==
    CASE rule = "DeMorgan" ->
            (IF Kind(f) = "Not" /\ Kind(f[2]) = "And"
             THEN <<Or(Not(f[2][2]), Not(f[2][3]))>> ELSE <<>>)
            \o (IF Kind(f) = "Or" /\ Kind(f[2]) = "Not" /\ Kind(f[3]) = "Not"
                THEN <<Not(And(f[2][2], f[3][2]))>> ELSE <<>>)
            \o (IF Kind(f) = "Not" /\ Kind(f[2]) = "Or"
                THEN <<And(Not(f[2][2]), Not(f[2][3]))>> ELSE <<>>)
            \o (IF Kind(f) = "And" /\ Kind(f[2]) = "Not" /\ Kind(f[3]) = "Not"
                THEN <<Not(Or(f[2][2], f[3][2]))>> ELSE <<>>)
      [] rule = "Commutation" ->
            IF Kind(f) \in {"And", "Or"} THEN <<Rebuild(f, f[3], f[2])>> ELSE <<>>
      [] rule = "Association" ->
            (IF Kind(f) \in {"And", "Or"} /\ Kind(f[2]) = Kind(f)
             THEN <<Rebuild(f, f[2][2], Rebuild(f, f[2][3], f[3]))>> ELSE <<>>)
            \o (IF Kind(f) \in {"And", "Or"} /\ Kind(f[3]) = Kind(f)
                THEN <<Rebuild(f, Rebuild(f, f[2], f[3][2]), f[3][3])>> ELSE <<>>)
      [] rule = "Distribution" ->
            (IF Kind(f) = "And" /\ Kind(f[3]) = "Or"
             THEN <<Or(And(f[2], f[3][2]), And(f[2], f[3][3]))>> ELSE <<>>)
            \o (IF /\ Kind(f) = "Or" /\ Kind(f[2]) = "And" /\ Kind(f[3]) = "And"
                   /\ f[2][2] = f[3][2]
                THEN <<And(f[2][2], Or(f[2][3], f[3][3]))>> ELSE <<>>)
            \o (IF Kind(f) = "Or" /\ Kind(f[3]) = "And"
                THEN <<And(Or(f[2], f[3][2]), Or(f[2], f[3][3]))>> ELSE <<>>)
            \o (IF /\ Kind(f) = "And" /\ Kind(f[2]) = "Or" /\ Kind(f[3]) = "Or"
                   /\ f[2][2] = f[3][2]
                THEN <<Or(f[2][2], And(f[2][3], f[3][3]))>> ELSE <<>>)
      [] rule = "Contraposition" -> contraposition_forms(f)
      [] rule = "Implication" ->
            (IF Kind(f) = "Implies" THEN <<Or(Not(f[2]), f[3])>> ELSE <<>>)
            \o (IF Kind(f) = "Or" /\ Kind(f[2]) = "Not"
                THEN <<Implies(f[2][2], f[3])>> ELSE <<>>)
      [] rule = "Equivalence" ->
            (IF Kind(f) = "Biconditional"
             THEN <<And(Implies(f[2], f[3]), Implies(f[3], f[2]))>> ELSE <<>>)
            \o (IF /\ Kind(f) = "And" /\ Kind(f[2]) = "Implies" /\ Kind(f[3]) = "Implies"
                   /\ f[2][2] = f[3][3] /\ f[2][3] = f[3][2]
                THEN <<Biconditional(f[2][2], f[2][3])>> ELSE <<>>)
      [] rule = "Exportation" ->
            (IF Kind(f) = "Implies" /\ Kind(f[2]) = "And"
             THEN <<Implies(f[2][2], Implies(f[2][3], f[3]))>> ELSE <<>>)
            \o (IF Kind(f) = "Implies" /\ Kind(f[3]) = "Implies"
                THEN <<Implies(And(f[2], f[3][2]), f[3][3])>> ELSE <<>>)
      [] rule = "Tautology" ->
            <<And(f, f), Or(f, f)>>
            \o (IF Kind(f) = "And" /\ f[2] = f[3] THEN <<f[2]>> ELSE <<>>)
            \o (IF Kind(f) = "Or" /\ f[2] = f[3] THEN <<f[2]>> ELSE <<>>)
      [] rule = "DoubleNegation" ->
            <<Not(Not(f))>>
            \o (IF Kind(f) = "Not" /\ Kind(f[2]) = "Not" THEN <<f[2][2]>> ELSE <<>>)
      [] OTHER -> <<>>

(***************************************************************************)
(* models/rules/technique.rs                                               *)
(***************************************************************************)
CP == "ConditionalProof"

IP == "IndirectProof"

ProofTechniques == {CP, IP}

is_contradiction(f) ==
    \/ Kind(f) = "Contradiction"
    \/ /\ Kind(f) = "And"
       /\ \/ Kind(f[2]) = "Not" /\ f[2][2] = f[3]
          \/ Kind(f[3]) = "Not" /\ f[3][2] = f[2]

requires_contradiction(technique) == technique = IP

get_conclusion(technique, assumption, derived) ==
    IF technique = CP THEN Some(Implies(assumption, derived))
    ELSE IF ~is_contradiction(derived) THEN None
    ELSE IF Kind(assumption) = "Not" THEN Some(assumption[2])
    ELSE Some(Not(assumption))

verify_conclusion(technique, assumption, derived, conclusion) ==
    LET expected == get_conclusion(technique, assumption, derived)
    IN  IF expected # None THEN Unwrap(expected) = conclusion ELSE FALSE

(***************************************************************************)
(* models/scope.rs.  A scope id "scope-N" is the number N.                 *)
(***************************************************************************)
ProofScope(id, start_line, assumption, technique, scope_depth, parent_scope_id) ==
    [id |-> id, start_line |-> start_line, end_line |-> None,
     assumption |-> assumption, technique |-> technique, depth |-> scope_depth,
     parent_scope_id |-> parent_scope_id]

is_open(s) == s.end_line = None

contains_line(s, line_number) ==
    IF s.end_line # None
    THEN line_number >= s.start_line /\ line_number <= Unwrap(s.end_line)
    ELSE line_number >= s.start_line

ScopeManager_new == [scopes |-> <<>>, next_scope_id |-> 1]

\* iter().rev().find / rposition: the last index satisfying the test, 0 if none.
LastOpen(sm) ==
    LET idx == { i \in DOMAIN sm.scopes : is_open(sm.scopes[i]) }
    IN  IF idx = {} THEN 0 ELSE CHOOSE i \in idx : \A j \in idx : j <= i

current_depth(sm) == Cardinality({ i \in DOMAIN sm.scopes : is_open(sm.scopes[i]) })

current_scope(sm) == IF LastOpen(sm) = 0 THEN None ELSE Some(sm.scopes[LastOpen(sm)])

current_scope_id(sm) ==
    IF LastOpen(sm) = 0 THEN None ELSE Some(sm.scopes[LastOpen(sm)].id)

has_open_scopes(sm) == \E i \in DOMAIN sm.scopes : is_open(sm.scopes[i])

open_scope(sm, start_line, assumption, technique) ==
    LET scope == ProofScope(sm.next_scope_id, start_line, assumption, technique,
                            current_depth(sm) + 1, current_scope_id(sm))
    IN  [scopes |-> Append(sm.scopes, scope), next_scope_id |-> sm.next_scope_id + 1]

close_scope(sm, end_line) ==
    IF LastOpen(sm) = 0 THEN sm
    ELSE [sm EXCEPT !.scopes[LastOpen(sm)].end_line = Some(end_line)]

pop_scope(sm, start_line) ==
    LET idx == { i \in DOMAIN sm.scopes :
                    sm.scopes[i].start_line = start_line /\ is_open(sm.scopes[i]) }
    IN  IF idx = {} THEN sm
        ELSE LET pos == CHOOSE i \in idx : \A j \in idx : j <= i
             IN  [sm EXCEPT !.scopes = RemoveAt(sm.scopes, pos)]

get_scope(sm, scope_id) ==
    LET idx == { i \in DOMAIN sm.scopes : sm.scopes[i].id = scope_id }
    IN  IF idx = {} THEN None
        ELSE Some(sm.scopes[CHOOSE i \in idx : \A j \in idx : i <= j])

depth_at_line(sm, line_number) ==
    Cardinality({ i \in DOMAIN sm.scopes : contains_line(sm.scopes[i], line_number) })

\* Faulty variant of is_accessible: only the order of the two lines is tested.
is_accessible_by_order_only(sm, from_line, to_line) == to_line < from_line

is_accessible(sm, from_line, to_line) ==
    IF to_line >= from_line THEN FALSE
    ELSE \A i \in DOMAIN sm.scopes :
            contains_line(sm.scopes[i], to_line) =>
                /\ ~(sm.scopes[i].end_line # None
                        /\ Unwrap(sm.scopes[i].end_line) < from_line)
                /\ contains_line(sm.scopes[i], from_line)

is_subproof_accessible(sm, from_line, start_line, end_line) ==
    IF end_line >= from_line THEN FALSE
    ELSE LET idx == { i \in DOMAIN sm.scopes :
                        /\ sm.scopes[i].start_line = start_line
                        /\ sm.scopes[i].end_line = Some(end_line) }
         IN  IF idx = {} THEN FALSE
             ELSE LET scope == sm.scopes[CHOOSE i \in idx : \A j \in idx : i <= j]
                      parent == IF scope.parent_scope_id # None
                                THEN get_scope(sm, Unwrap(scope.parent_scope_id))
                                ELSE None
                  IN  IF parent # None
                      THEN contains_line(Unwrap(parent), from_line)
                      ELSE \/ depth_at_line(sm, from_line) = 0
                           \/ \E i \in DOMAIN sm.scopes :
                                /\ contains_line(sm.scopes[i], from_line)
                                /\ sm.scopes[i].depth < scope.depth

(***************************************************************************)
(* models/proof.rs                                                         *)
(***************************************************************************)
Premise == <<"Premise">>

Assumption(technique) == <<"Assumption", technique>>

Inference(rule, ref_lines) == <<"Inference", rule, ref_lines>>

Equivalence(rule, ref_line) == <<"Equivalence", rule, ref_line>>

SubproofConclusion(technique, subproof_start, subproof_end) ==
    <<"SubproofConclusion", technique, subproof_start, subproof_end>>

ProofLine(line_number, formula, justification, line_depth, scope_id) ==
    [line_number |-> line_number, formula |-> formula,
     justification |-> justification, depth |-> line_depth, scope_id |-> scope_id,
     is_valid |-> TRUE, validation_message |-> None]

Proof_new(theorem) ==
    [theorem |-> theorem,
     lines |-> [i \in 1 .. Len(theorem.premises) |->
                    ProofLine(i, theorem.premises[i], Premise, 0, None)],
     scope_manager |-> ScopeManager_new,
     is_complete |-> FALSE]

\* Faulty variant of next_line_number: the 0-based count of lines.
next_line_number_zero_based(p) == Len(p.lines)

next_line_number(p) == Len(p.lines) + 1

get_line(p, line_number) ==
    LET idx == { i \in DOMAIN p.lines : p.lines[i].line_number = line_number }
    IN  IF idx = {} THEN None
        ELSE Some(p.lines[CHOOSE i \in idx : \A j \in idx : i <= j])

add_line(p, formula, justification) ==
    [p EXCEPT !.lines = Append(@, ProofLine(next_line_number(p), formula, justification,
                                            current_depth(p.scope_manager),
                                            current_scope_id(p.scope_manager)))]

open_subproof(p, assumption, technique) ==
    LET line_number == next_line_number(p)
        sm == open_scope(p.scope_manager, line_number, assumption, technique)
    IN  [p EXCEPT !.scope_manager = sm,
                  !.lines = Append(@, ProofLine(line_number, assumption,
                                                Assumption(technique), current_depth(sm),
                                                Some(sm.next_scope_id - 1)))]

\* Returns the proof unchanged when there is no open scope (the None return).
close_subproof(p, conclusion, technique) ==
    IF current_scope(p.scope_manager) = None THEN p
    ELSE LET scope == Unwrap(current_scope(p.scope_manager))
             end_line == next_line_number(p)
             sm == close_scope(p.scope_manager, end_line - 1)
         IN  [p EXCEPT !.scope_manager = sm,
                       !.lines = Append(@, ProofLine(end_line, conclusion,
                                    SubproofConclusion(technique, scope.start_line,
                                                       end_line - 1),
                                    current_depth(sm), current_scope_id(sm)))]

\* The pair <<proof after the call, removed line (an Option)>>.
remove_last_line(p) ==
    IF Len(p.lines) <= Len(p.theorem.premises) THEN <<p, None>>
    ELSE LET removed == p.lines[Len(p.lines)]
             popped == [p EXCEPT !.lines = SubSeq(@, 1, Len(@) - 1)]
         IN  IF Kind(removed.justification) = "Assumption"
             THEN <<[popped EXCEPT !.scope_manager = pop_scope(@, removed.line_number)],
                    Some(removed)>>
             ELSE <<popped, Some(removed)>>

\* Faulty variant of check_complete: the all_valid conjunct is left out.
check_complete_without_all_valid(p) ==
    IF has_open_scopes(p.scope_manager) THEN <<[p EXCEPT !.is_complete = FALSE], FALSE>>
    ELSE LET has_conclusion ==
                \E i \in DOMAIN p.lines :
                    /\ p.lines[i].depth = 0
                    /\ p.lines[i].formula = p.theorem.conclusion
                    /\ p.lines[i].is_valid
         IN  <<[p EXCEPT !.is_complete = has_conclusion], has_conclusion>>

\* The pair <<proof after the call (is_complete stored), returned value>>.
check_complete(p) ==
    IF has_open_scopes(p.scope_manager) THEN <<[p EXCEPT !.is_complete = FALSE], FALSE>>
    ELSE LET has_conclusion ==
                \E i \in DOMAIN p.lines :
                    /\ p.lines[i].depth = 0
                    /\ p.lines[i].formula = p.theorem.conclusion
                    /\ p.lines[i].is_valid
             all_valid == \A i \in DOMAIN p.lines : p.lines[i].is_valid
         IN  <<[p EXCEPT !.is_complete = has_conclusion /\ all_valid],
               has_conclusion /\ all_valid>>

\* Faulty variant of get_auto_close_conclusion: for IP only the last line is
\* examined for a contradiction, as for CP.
get_auto_close_conclusion_last_line_only(p) ==
    IF current_scope(p.scope_manager) = None THEN None
    ELSE LET scope == Unwrap(current_scope(p.scope_manager))
             found == { i \in DOMAIN p.lines :
                          p.lines[i].line_number >= scope.start_line }
         IN  IF found = {} THEN None
             ELSE LET i == CHOOSE h \in found : \A k \in found : k <= h
                      c == get_conclusion(scope.technique, scope.assumption,
                                          p.lines[i].formula)
                  IN  IF c = None THEN None
                      ELSE Some(<<scope.technique, Unwrap(c)>>)

get_auto_close_conclusion(p) ==
    IF current_scope(p.scope_manager) = None THEN None
    ELSE LET scope == Unwrap(current_scope(p.scope_manager))
             \* lines.iter().rev() until line_number < scope_start
             in_scope == { i \in DOMAIN p.lines :
                            \A j \in i .. Len(p.lines) :
                                p.lines[j].line_number >= scope.start_line }
         IN  IF requires_contradiction(scope.technique)
             THEN LET hits == { i \in in_scope : is_contradiction(p.lines[i].formula) }
                  IN  IF hits = {} THEN None
                      ELSE LET i == CHOOSE h \in hits : \A k \in hits : k <= h
                               c == get_conclusion(scope.technique, scope.assumption,
                                                   p.lines[i].formula)
                           IN  IF c = None THEN None
                               ELSE Some(<<scope.technique, Unwrap(c)>>)
             ELSE LET found == { i \in DOMAIN p.lines :
                                    p.lines[i].line_number >= scope.start_line }
                  IN  IF found = {} THEN None
                      ELSE LET i == CHOOSE h \in found : \A k \in found : k <= h
                               c == get_conclusion(scope.technique, scope.assumption,
                                                   p.lines[i].formula)
                           IN  IF c = None THEN None
                               ELSE Some(<<scope.technique, Unwrap(c)>>)

(***************************************************************************)
(* services/verifier.rs                                                    *)
(* A VerificationResult is [is_valid, message]; a message is modelled by   *)
(* the fixed part of the text the code formats.                            *)
(***************************************************************************)
valid == [is_valid |-> TRUE, message |-> None]

invalid(message) == [is_valid |-> FALSE, message |-> Some(message)]

MSG_NOT_PREMISE == "Formula is not a premise of the theorem"
MSG_COUNT == "requires premise(s), but were provided"
MSG_EARLIER == "must reference earlier lines"
MSG_SCOPE == "is not accessible (different scope)"
MSG_REF_INVALID == "Referenced line is invalid"
MSG_REF_MISSING == "Referenced line does not exist"
MSG_NOT_FOLLOW == "The formula does not follow from the given premises"
MSG_CASE == "Cannot derive the formula. Note: Propositional logic is case-sensitive"
MSG_NOT_DERIVE == "Cannot derive the formula from line"
MSG_START_MISSING == "Subproof start line does not exist"
MSG_END_MISSING == "Subproof end line does not exist"
MSG_NOT_ASSUMPTION == "is not an assumption"
MSG_TECHNIQUE == "Assumption technique does not match conclusion technique"
MSG_SUBPROOF_SCOPE == "Subproof lines are not accessible"
MSG_SUBPROOF_NOT_FOLLOW == "The conclusion does not follow from the subproof"

is_line_accessible(p, from_line, to_line) == is_accessible(p.scope_manager, from_line, to_line)

verify_premise(line, p) ==
    IF Contains(p.theorem.premises, line.formula) THEN valid ELSE invalid(MSG_NOT_PREMISE)

verify_assumption(line, technique, p) == valid

\* Faulty variant of check_reference: the is_valid test of the cited line is
\* left out.
check_reference_without_validity(line, ref_line, p) ==
    IF ref_line >= line.line_number THEN Some(MSG_EARLIER)
    ELSE IF ~is_line_accessible(p, line.line_number, ref_line) THEN Some(MSG_SCOPE)
    ELSE IF get_line(p, ref_line) = None THEN Some(MSG_REF_MISSING)
    ELSE None

\* The body of the loop over referenced_lines for one reference: None when the
\* reference passes, otherwise the message of the early return.
check_reference(line, ref_line, p) ==
    IF ref_line >= line.line_number THEN Some(MSG_EARLIER)
    ELSE IF ~is_line_accessible(p, line.line_number, ref_line) THEN Some(MSG_SCOPE)
    ELSE IF get_line(p, ref_line) = None THEN Some(MSG_REF_MISSING)
    ELSE IF ~Unwrap(get_line(p, ref_line)).is_valid THEN Some(MSG_REF_INVALID)
    ELSE None

RECURSIVE check_references(_, _, _, _)
check_references(line, referenced_lines, k, p) ==
    IF k > Len(referenced_lines) THEN None
    ELSE IF check_reference(line, referenced_lines[k], p) # None
         THEN check_reference(line, referenced_lines[k], p)
         ELSE check_references(line, referenced_lines, k + 1, p)

addition_input(line, premises) ==
    IF Kind(line.formula) = "Or"
    THEN IF Len(premises) = 1
         THEN IF premises[1] = line.formula[2] THEN Some(line.formula[3])
              ELSE IF premises[1] = line.formula[3] THEN Some(line.formula[2])
              ELSE None
         ELSE None
    ELSE None

verify_inference(line, rule, referenced_lines, p) ==
    IF Len(referenced_lines) # premise_count(rule) THEN invalid(MSG_COUNT)
    ELSE IF check_references(line, referenced_lines, 1, p) # None
         THEN invalid(Unwrap(check_references(line, referenced_lines, 1, p)))
    ELSE LET premises == [k \in DOMAIN referenced_lines |->
                              Unwrap(get_line(p, referenced_lines[k])).formula]
             additional == IF requires_formula_input(rule)
                           THEN addition_input(line, premises) ELSE None
         IN  IF rule_verify(rule, premises, line.formula, additional)
             THEN valid ELSE invalid(MSG_NOT_FOLLOW)

RECURSIVE replace_subformula(_, _, _)
replace_subformula(formula, target, replacement) ==
    IF formula = target THEN replacement
    ELSE IF Kind(formula) \in {"Atom", "Contradiction"} THEN formula
    ELSE IF Kind(formula) = "Not"
         THEN Not(replace_subformula(formula[2], target, replacement))
    ELSE Rebuild(formula, replace_subformula(formula[2], target, replacement),
                                replace_subformula(formula[3], target, replacement))

check_subformula_equivalence(source, target, rule) ==
    \E i \in DOMAIN subformulas(source) :
        LET subformula == subformulas(source)[i]
        IN  \E j \in DOMAIN equivalent_forms(rule, subformula) :
                replace_subformula(source, subformula,
                                   equivalent_forms(rule, subformula)[j]) = target

\* Faulty variant: only the forms of the whole formula are accepted.
is_valid_equivalence_application_root_only(source, target, rule) ==
    Contains(equivalent_forms(rule, source), target)

is_valid_equivalence_application(source, target, rule) ==
    \/ Contains(equivalent_forms(rule, source), target)
    \/ check_subformula_equivalence(source, target, rule)

LowerAlphabet ==
    <<"a", "b", "c", "d", "e", "f", "g", "h", "i", "j", "k", "l", "m",
      "n", "o", "p", "q", "r", "s", "t", "u", "v", "w", "x", "y", "z">>

\* str::to_lowercase on single-letter atom names
to_lowercase(name) ==
    IF \E i \in DOMAIN Alphabet : Alphabet[i] = name
    THEN LowerAlphabet[AlphaIndex(name)] ELSE name

RECURSIVE to_lowercase_formula(_)
to_lowercase_formula(formula) ==
    IF Kind(formula) = "Atom" THEN Atom(to_lowercase(formula[2]))
    ELSE IF Kind(formula) = "Contradiction" THEN formula
    ELSE IF Kind(formula) = "Not" THEN Not(to_lowercase_formula(formula[2]))
    ELSE Rebuild(formula, to_lowercase_formula(formula[2]),
                                to_lowercase_formula(formula[3]))

is_valid_equivalence_application_case_insensitive(source, target, rule) ==
    LET lowercase_source == to_lowercase_formula(source)
        lowercase_target == to_lowercase_formula(target)
    IN  \/ \E j \in DOMAIN equivalent_forms(rule, lowercase_source) :
              to_lowercase_formula(equivalent_forms(rule, lowercase_source)[j])
                  = lowercase_target
        \/ \E i \in DOMAIN subformulas(lowercase_source) :
              LET subformula == subformulas(lowercase_source)[i]
              IN  \E j \in DOMAIN equivalent_forms(rule, subformula) :
                      to_lowercase_formula(
                          replace_subformula(lowercase_source, subformula,
                                             equivalent_forms(rule, subformula)[j]))
                          = lowercase_target

verify_equivalence(line, rule, ref_line, p) ==
    IF check_reference(line, ref_line, p) # None
    THEN invalid(Unwrap(check_reference(line, ref_line, p)))
    ELSE LET source_line == Unwrap(get_line(p, ref_line))
         IN  IF is_valid_equivalence_application(source_line.formula, line.formula, rule)
             THEN valid
             ELSE IF is_valid_equivalence_application_case_insensitive(
                         source_line.formula, line.formula, rule)
                  THEN invalid(MSG_CASE)
                  ELSE invalid(MSG_NOT_DERIVE)

\* Faulty variant of verify_subproof_conclusion: the technique of the
\* assumption is not compared with the declared technique.
verify_subproof_conclusion_any_technique(line, technique, subproof_start, subproof_end, p) ==
    IF get_line(p, subproof_start) = None THEN invalid(MSG_START_MISSING)
    ELSE IF get_line(p, subproof_end) = None THEN invalid(MSG_END_MISSING)
    ELSE LET start_line == Unwrap(get_line(p, subproof_start))
             end_line == Unwrap(get_line(p, subproof_end))
         IN  IF Kind(start_line.justification) # "Assumption"
             THEN invalid(MSG_NOT_ASSUMPTION)
             ELSE IF ~is_subproof_accessible(p.scope_manager, line.line_number,
                                             subproof_start, subproof_end)
                  THEN invalid(MSG_SUBPROOF_SCOPE)
             ELSE IF verify_conclusion(technique, start_line.formula, end_line.formula,
                                       line.formula)
                  THEN valid ELSE invalid(MSG_SUBPROOF_NOT_FOLLOW)

verify_subproof_conclusion(line, technique, subproof_start, subproof_end, p) ==
    IF get_line(p, subproof_start) = None THEN invalid(MSG_START_MISSING)
    ELSE IF get_line(p, subproof_end) = None THEN invalid(MSG_END_MISSING)
    ELSE LET start_line == Unwrap(get_line(p, subproof_start))
             end_line == Unwrap(get_line(p, subproof_end))
         IN  IF Kind(start_line.justification) # "Assumption"
             THEN invalid(MSG_NOT_ASSUMPTION)
             ELSE IF start_line.justification[2] # technique THEN invalid(MSG_TECHNIQUE)
             ELSE IF ~is_subproof_accessible(p.scope_manager, line.line_number,
                                             subproof_start, subproof_end)
                  THEN invalid(MSG_SUBPROOF_SCOPE)
             ELSE IF verify_conclusion(technique, start_line.formula, end_line.formula,
                                       line.formula)
                  THEN valid ELSE invalid(MSG_SUBPROOF_NOT_FOLLOW)

verify_line(line, p) ==
    LET j == line.justification
    IN  CASE Kind(j) = "Premise" -> verify_premise(line, p)
          [] Kind(j) = "Assumption" -> verify_assumption(line, j[2], p)
          [] Kind(j) = "Inference" -> verify_inference(line, j[2], j[3], p)
          [] Kind(j) = "Equivalence" -> verify_equivalence(line, j[2], j[3], p)
          [] Kind(j) = "SubproofConclusion" ->
                 verify_subproof_conclusion(line, j[2], j[3], j[4], p)

\* Faulty variant of store_result: the line is built anew with ProofLine::new
\* at depth 0 before the result is written.
store_result_rebuilding_line(p, i, result) ==
    [p EXCEPT !.lines[i] = [ProofLine(@.line_number, @.formula, @.justification, 0, @.scope_id)
                                EXCEPT !.is_valid = result.is_valid,
                                       !.validation_message = result.message]]

\* Writes a VerificationResult into line i (the body of verify_proof's loop,
\* and what callers of verify_line do with the result).
store_result(p, i, result) ==
    [p EXCEPT !.lines[i].is_valid = result.is_valid,
              !.lines[i].validation_message = result.message]

RECURSIVE verify_from(_, _)
verify_from(p, i) ==
    IF i > Len(p.lines) THEN p
    ELSE verify_from(store_result(p, i, verify_line(p.lines[i], p)), i + 1)

verify_proof(p) == verify_from(p, 1)

(***************************************************************************)
(* The proof kernel as a state machine: one Proof object driven through    *)
(* its public operations and the Verifier.                                 *)
(***************************************************************************)
VARIABLES proof, undos, rewrite, gen, call

vars == <<proof, undos, rewrite, gen, call>>

\* Upper bound on the number of lines of the proof.
MaxLines == 5

\* Upper bound on the number of scopes opened over the life of the proof.
MaxScopes == 2

\* Upper bound on the number of remove_last_line calls (counted in undos).
MaxUndos == 2

P == Atom("P")

Q == Atom("Q")

\* The theorem of the verifier tests: P > Q, P |- Q.
make_mp_theorem == [premises |-> <<Implies(P, Q), P>>, conclusion |-> Q]

\* <<formula, justification>> arguments of add_line
AddLineInputs ==
    { <<Q, Inference("ModusPonens", <<1, 2>>)>>,
      <<Q, Inference("ModusPonens", <<1, 4>>)>>,
      <<Not(P), Inference("ModusPonens", <<1>>)>>,
      <<And(P, Not(P)), Inference("Conjunction", <<2, 3>>)>>,
      <<Implies(Not(P), Not(P)), SubproofConclusion(CP, 3, 3)>> }

\* <<assumption, technique>> arguments of open_subproof
OpenInputs == { <<Not(P), CP>>, <<Not(P), IP>> }

\* <<conclusion, technique>> arguments of close_subproof
CloseInputs == { <<Implies(Not(P), Not(P)), CP>>, <<P, IP>> }

ProofInit ==
    /\ proof = Proof_new(make_mp_theorem)
    /\ undos = 0
    /\ rewrite = None
    /\ gen = None
    /\ call = None

AddLine ==
    /\ Len(proof.lines) < MaxLines
    /\ \E inp \in AddLineInputs :
          proof' = add_line(proof, inp[1], inp[2])
    /\ UNCHANGED <<undos, rewrite, gen, call>>

OpenSubproof ==
    /\ Len(proof.lines) < MaxLines
    /\ proof.scope_manager.next_scope_id <= MaxScopes
    /\ \E inp \in OpenInputs :
          proof' = open_subproof(proof, inp[1], inp[2])
    /\ UNCHANGED <<undos, rewrite, gen, call>>

CloseSubproof ==
    /\ Len(proof.lines) < MaxLines
    /\ \E inp \in CloseInputs :
          proof' = close_subproof(proof, inp[1], inp[2])
    /\ UNCHANGED <<undos, rewrite, gen, call>>

RemoveLastLine ==
    /\ undos < MaxUndos
    /\ undos' = undos + 1
    /\ proof' = remove_last_line(proof)[1]
    /\ UNCHANGED <<rewrite, gen, call>>

VerifyProof ==
    /\ proof' = verify_proof(proof)
    /\ UNCHANGED <<undos, rewrite, gen, call>>

CheckComplete ==
    /\ proof' = check_complete(proof)[1]
    /\ UNCHANGED <<undos, rewrite, gen, call>>

Next ==
    \/ AddLine
    \/ OpenSubproof
    \/ CloseSubproof
    \/ RemoveLastLine
    \/ VerifyProof
    \/ CheckComplete

Spec == ProofInit /\ [][Next]_vars

(***************************************************************************)
(* Properties of the proof kernel (checked under Spec)                     *)
(***************************************************************************)
LineNumbers == 0 .. MaxLines + 2

\* The stored lines whose justification has the given kind.
LinesOfKind(kind) == { i \in DOMAIN proof.lines : Kind(proof.lines[i].justification) = kind }

\* Line j carries a stored rejection, so verify_proof ran with lines 1 .. j present.
VerifiedThrough(j) == j \in DOMAIN proof.lines /\ proof.lines[j].validation_message # None

\* C1: in every state reached by add_line, open_subproof, close_subproof,
\* remove_last_line and verify_proof, check_complete() returns true if and
\* only if no scope is open, some line at depth 0 carrying the theorem's
\* conclusion is marked valid, and every line is marked valid; the value
\* returned is the one stored in is_complete.
C1_CheckCompleteIff ==
    LET open_scopes == { i \in DOMAIN proof.scope_manager.scopes :
                            proof.scope_manager.scopes[i].end_line = None }
        conclusion_lines == { i \in DOMAIN proof.lines :
                                /\ proof.lines[i].depth = 0
                                /\ proof.lines[i].formula = make_mp_theorem.conclusion
                                /\ proof.lines[i].is_valid }
        invalid_lines == { i \in DOMAIN proof.lines : ~proof.lines[i].is_valid }
    IN  /\ check_complete(proof)[2] <=>
              (open_scopes = {} /\ conclusion_lines # {} /\ invalid_lines = {})
        /\ check_complete(proof)[1].is_complete = check_complete(proof)[2]

\* check_complete has returned true (is_complete is stored) on a proof holding a
\* derived line, and would again.
C1_Witness ==
    /\ proof.is_complete
    /\ Len(proof.lines) > Len(make_mp_theorem.premises)
    /\ check_complete(proof)[2]
    /\ \A i \in DOMAIN proof.lines : verify_line(proof.lines[i], proof).is_valid

\* The conditions of C2 for an Inference line, stated over the proof.
InferenceAccepted(line) ==
    LET rule == line.justification[2]
        cited == line.justification[3]
        n == line.line_number
        found(k) == { i \in DOMAIN proof.lines : proof.lines[i].line_number = cited[k] }
    IN  /\ Len(cited) = premise_count(rule)
        /\ \A k \in DOMAIN cited :
              /\ cited[k] < n
              /\ is_accessible(proof.scope_manager, n, cited[k])
              /\ found(k) # {}
              /\ \A i \in found(k) : proof.lines[i].is_valid
        /\ LET premises == [k \in DOMAIN cited |->
                               proof.lines[CHOOSE i \in found(k) : TRUE].formula]
           IN  rule_verify(rule, premises, line.formula,
                           IF requires_formula_input(rule)
                           THEN addition_input(line, premises) ELSE None)

\* C2: verify_line marks an Inference line valid exactly when the count of cited
\* lines is the rule's premise count, every cited line is earlier, accessible,
\* present and marked valid, and the rule derives the formula; MP on [1,4]
\* placed at line 3 is rejected with "must reference earlier lines".
C2_InferenceValidIff ==
    \A i \in LinesOfKind("Inference") :
        LET line == proof.lines[i]
            result == verify_line(line, proof)
        IN  /\ result.is_valid <=> InferenceAccepted(line)
            /\ (line.line_number = 3 /\ line.justification = Inference("ModusPonens", <<1, 4>>))
                  => (~result.is_valid /\ result.message = Some(MSG_EARLIER))

\* verify_proof has stored the rejection of the forward reference MP [1,4] at line 3.
C2_Witness ==
    /\ Len(proof.lines) >= 3
    /\ proof.lines[3].justification = Inference("ModusPonens", <<1, 4>>)
    /\ ~proof.lines[3].is_valid
    /\ proof.lines[3].validation_message = Some(MSG_EARLIER)

NegationToggle(f) == IF Kind(f) = "Not" THEN f[2] ELSE Not(f)

\* A syntactic contradiction: the constant, X & ~X or ~X & X.
SyntacticContradiction(f) ==
    \/ f = Contradiction
    \/ /\ Kind(f) = "And"
       /\ (f[3] = Not(f[2]) \/ f[2] = Not(f[3]))

\* The proof line with the given number (the proofs reached number their lines 1..n).
LineAt(n) == proof.lines[n]

\* C4: verify_line marks a SubproofConclusion{technique, start, end} line valid
\* only if line start is an Assumption of the same technique and the formula
\* has the technique's shape: for CP exactly (assumption > formula of line
\* end); for IP the formula of line end is a syntactic contradiction and the
\* line's formula is the negation-toggle of the assumption.
C4_SubproofConclusionShape ==
    \A i \in LinesOfKind("SubproofConclusion") :
        LET line == proof.lines[i]
            technique == line.justification[2]
            start == line.justification[3]
            end == line.justification[4]
        IN  verify_line(line, proof).is_valid =>
              /\ start \in DOMAIN proof.lines
              /\ end \in DOMAIN proof.lines
              /\ LineAt(start).justification = Assumption(technique)
              /\ technique = CP =>
                    line.formula = Implies(LineAt(start).formula, LineAt(end).formula)
              /\ technique = IP =>
                    /\ SyntacticContradiction(LineAt(end).formula)
                    /\ line.formula = NegationToggle(LineAt(start).formula)

\* A SubproofConclusion line stands accepted, and a later line carries a stored
\* rejection, so verify_proof has gone through both.
C4_Witness ==
    \E i \in LinesOfKind("SubproofConclusion") :
        /\ proof.lines[i].is_valid
        /\ verify_line(proof.lines[i], proof).is_valid
        /\ \E j \in DOMAIN proof.lines : j > i /\ VerifiedThrough(j)

\* C5 (as claimed): a SubproofConclusion line n citing [start, end] is accepted
\* only if a closed scope with exactly these endpoints exists, it was closed
\* just prior to line n (end = n - 1), and its parent scope, or the main proof
\* when it has none, contains line n.
C5_AcceptedOnlyJustClosed ==
    \A i \in LinesOfKind("SubproofConclusion") :
        LET line == proof.lines[i]
            n == line.line_number
            start == line.justification[3]
            end == line.justification[4]
            sm == proof.scope_manager
        IN  verify_line(line, proof).is_valid =>
              \E k \in DOMAIN sm.scopes :
                  /\ sm.scopes[k].start_line = start
                  /\ sm.scopes[k].end_line = Some(end)
                  /\ end = n - 1
                  /\ sm.scopes[k].parent_scope_id # None =>
                        \E q \in DOMAIN sm.scopes :
                            /\ sm.scopes[q].id = sm.scopes[k].parent_scope_id[1]
                            /\ contains_line(sm.scopes[q], n)

\* An open IP scope whose own lines hold a syntactic contradiction that the
\* Verifier accepts.
OpenIPScopeWithContradiction ==
    /\ current_scope(proof.scope_manager) # None
    /\ Unwrap(current_scope(proof.scope_manager)).technique = IP
    /\ \E i \in DOMAIN proof.lines :
          /\ proof.lines[i].line_number > Unwrap(current_scope(proof.scope_manager)).start_line
          /\ proof.lines[i].scope_id = current_scope_id(proof.scope_manager)
          /\ SyntacticContradiction(proof.lines[i].formula)
          /\ proof.lines[i].is_valid
          /\ verify_line(proof.lines[i], proof).is_valid

\* C6 (as claimed): whenever the open IP scope with assumption A holds a derived
\* syntactic contradiction, the line appended by
\* close_subproof(negation-toggle of A, IP) is accepted by the Verifier.
C6_CloseIPAccepted ==
    OpenIPScopeWithContradiction =>
        LET scope == Unwrap(current_scope(proof.scope_manager))
            closed == close_subproof(proof, NegationToggle(scope.assumption), IP)
        IN  verify_line(closed.lines[Len(closed.lines)], closed).is_valid

\* What C10 claims of one remove_last_line step.
RemoveLastLinePost ==
    IF Len(proof.lines) <= Len(proof.theorem.premises)
    THEN remove_last_line(proof)[2] = None /\ proof' = proof
    ELSE LET removed == proof.lines[Len(proof.lines)]
         IN  /\ remove_last_line(proof)[2] = Some(removed)
             /\ proof'.lines = SubSeq(proof.lines, 1, Len(proof.lines) - 1)
             /\ Kind(removed.justification) = "Assumption" =>
                   \A k \in DOMAIN proof'.scope_manager.scopes :
                       proof'.scope_manager.scopes[k].start_line # removed.line_number

\* C10 (as claimed): remove_last_line never removes a premise line (with only
\* premises left it returns nothing and changes nothing); otherwise it removes
\* exactly the last line, and when that line is an Assumption no scope with
\* its start_line remains in the ScopeManager.
C10_RemoveLastLine == [][RemoveLastLine => RemoveLastLinePost]_vars


(***************************************************************************)
(* The equivalence rule table as a state machine: a formula is drawn from  *)
(* a bounded set and EquivalenceRule::equivalent_forms is applied to it.   *)
(***************************************************************************)
\* Number of atoms (P, Q, R, ...) the formulas given to equivalent_forms use.
EqAtoms == 3

EqLeaves == { Atom(Alphabet[15 + i]) : i \in 1 .. EqAtoms } \cup {Contradiction}

\* S together with every formula built by one connective from members of S.
Grow(S) ==
    S \cup { Not(f) : f \in S }
      \cup { <<k, l, r>> : k \in {"And", "Or", "Implies", "Biconditional"},
                           l \in S, r \in S }

\* Every formula of nesting depth at most two over EqLeaves: each pattern an
\* arm of equivalent_forms matches on has depth at most two.
EqFormulas == Grow(Grow(EqLeaves))

EqInit ==
    /\ proof = Proof_new(make_mp_theorem)
    /\ undos = 0
    /\ gen = None
    /\ call = None
    /\ \E f \in EqFormulas :
          rewrite = [formula |-> f, rule |-> None, forms |-> <<>>]

ApplyEquivalentForms ==
    /\ \E i \in DOMAIN EquivalenceRules :
          rewrite' = [rewrite EXCEPT
                         !.rule = Some(EquivalenceRules[i]),
                         !.forms = equivalent_forms(EquivalenceRules[i],
                                                    rewrite.formula)]
    /\ UNCHANGED <<proof, undos, gen, call>>

EqNext == ApplyEquivalentForms

EqSpec == EqInit /\ [][EqNext]_vars

\* Truth value of f under the assignment that makes exactly the atoms in
\* true_atoms true.
RECURSIVE Eval(_, _)
Eval(f, true_atoms) ==
    CASE Kind(f) = "Atom" -> f[2] \in true_atoms
      [] Kind(f) = "Not" -> ~Eval(f[2], true_atoms)
      [] Kind(f) = "And" -> Eval(f[2], true_atoms) /\ Eval(f[3], true_atoms)
      [] Kind(f) = "Or" -> Eval(f[2], true_atoms) \/ Eval(f[3], true_atoms)
      [] Kind(f) = "Implies" -> Eval(f[2], true_atoms) => Eval(f[3], true_atoms)
      [] Kind(f) = "Biconditional" -> Eval(f[2], true_atoms) <=> Eval(f[3], true_atoms)
      [] OTHER -> FALSE

SameTruthTable(f, g) ==
    \A true_atoms \in SUBSET (atoms(f) \cup atoms(g)) :
        Eval(f, true_atoms) <=> Eval(g, true_atoms)

\* C8: for every formula F and every one of the ten equivalence rules R,
\* every formula returned by R.equivalent_forms(F) has the same truth value
\* as F under every assignment, and the truth-table engine's are_equivalent
\* agrees.
C8_EquivalentFormsSound ==
    rewrite.rule # None =>
        \A i \in DOMAIN rewrite.forms :
            /\ SameTruthTable(rewrite.formula, rewrite.forms[i])
            /\ are_equivalent(rewrite.formula, rewrite.forms[i])

\* C8 witness: Distribution was applied to a formula both of whose
\* directions match, and returned two rewritten formulas.
C8_Witness ==
    /\ rewrite.rule = Some("Distribution")
    /\ Len(rewrite.forms) = 2
    /\ rewrite.forms[1] # rewrite.formula

(***************************************************************************)
(* services/obfuscate_gen.rs: configuration and base argument forms.       *)
(* A DifficultySpec is a record with the fields of models/theorem.rs.      *)
(***************************************************************************)
preset_for_value(value) ==
    IF value >= 1 /\ value <= 25 THEN "Easy"
    ELSE IF value >= 26 /\ value <= 45 THEN "Medium"
    ELSE IF value >= 46 /\ value <= 70 THEN "Hard"
    ELSE "Expert"

saturating_sub(a, b) == IF a >= b THEN a - b ELSE 0

\* The product of two u16 fits the u32 it is computed in.  u8 arithmetic:
\* the cast truncates, the product wraps, the sum saturates.
difficulty_value_from_spec(spec) ==
    LET total_transforms == spec.passes * spec.transforms_per_pass
        base ==
            IF total_transforms <= 3
                THEN 1 + (saturating_sub(total_transforms, 1) * 24) \div 2
            ELSE IF total_transforms <= 6
                THEN 26 + ((total_transforms - 4) * 19) \div 2
            ELSE IF total_transforms <= 11
                THEN 46 + ((total_transforms - 7) * 24) \div 4
            ELSE IF total_transforms <= 16
                THEN 71 + ((total_transforms - 12) * 14) \div 4
            ELSE IF total_transforms <= 20
                THEN 86 + ((total_transforms - 17) * 9) \div 3
            ELSE 96 + Min(saturating_sub(total_transforms, 21), 4)
        sub_bonus == ((spec.substitution_depth % 256) * 3) % 256
    IN  Min(Min((base % 256) + sub_bonus, 255), 100)

build_atom_pool(n) ==
    LET base == <<"P", "Q", "R", "S", "T">>
        extended == <<"A", "B", "C", "D", "E", "F", "G", "H", "I", "J",
                      "K", "L", "M", "N", "O", "U", "V", "W", "X", "Y", "Z">>
    IN  SubSeq(base, 1, Min(n, Len(base)))
            \o (IF n > Len(base)
                THEN SubSeq(extended, 1, Min(n - Len(base), Len(extended)))
                ELSE <<>>)

from_spec(spec) ==
    [atom_pool |-> build_atom_pool(spec.variables),
     transform_count |-> spec.transforms_per_pass,
     difficulty |-> preset_for_value(difficulty_value_from_spec(spec)),
     difficulty_value |-> difficulty_value_from_spec(spec),
     substitution_depth |-> spec.substitution_depth,
     bridge_atoms |-> IF spec.bridge_atoms = None THEN 0 ELSE Unwrap(spec.bridge_atoms)]

MAX_FORMULA_DEPTH == 100

MAX_FORMULA_NODES == 20000

RECURSIVE node_count(_)
node_count(formula) ==
    CASE Kind(formula) = "Not" -> 1 + node_count(formula[2])
      [] IsBinary(formula) -> 1 + node_count(formula[2]) + node_count(formula[3])
      [] OTHER -> 1

BaseForm_standard ==
    <<"ModusPonens", "ModusTollens", "HypotheticalSyllogism", "DisjunctiveSyllogism",
      "Simplification", "Conjunction", "ConstructiveDilemma">>

BaseForm_complex == <<"ConstructiveDilemmaFull", "NestedCP", "Chain4">>

BaseForm_all == BaseForm_standard \o BaseForm_complex

for_atom_count_and_difficulty(count, difficulty) ==
    IF count <= 1 THEN <<>>
    ELSE IF count = 2
        THEN <<"ModusPonens", "ModusTollens", "DisjunctiveSyllogism",
               "Simplification", "Conjunction">>
    ELSE IF count = 3
        THEN BaseForm_standard
                \o (IF difficulty >= 70
                    THEN <<"NestedCP", "ConstructiveDilemmaFull">> ELSE <<>>)
    ELSE IF difficulty >= 70 THEN BaseForm_all ELSE BaseForm_standard

for_atom_count(count) == for_atom_count_and_difficulty(count, 50)

instantiate_base_form(form, atom_names) ==
    LET p == Atom(atom_names[1])
        q == Atom(atom_names[(1 % Len(atom_names)) + 1])
        r == IF Len(atom_names) > 2 THEN Atom(atom_names[3]) ELSE Atom(atom_names[1])
        s == IF Len(atom_names) > 3 THEN Atom(atom_names[4])
             ELSE Atom(atom_names[(1 % Len(atom_names)) + 1])
    IN  CASE form = "ModusPonens" ->
                [premises |-> <<p, Implies(p, q)>>, conclusion |-> q]
          [] form = "ModusTollens" ->
                [premises |-> <<Implies(p, q), Not(q)>>, conclusion |-> Not(p)]
          [] form = "HypotheticalSyllogism" ->
                [premises |-> <<Implies(p, q), Implies(q, r)>>,
                 conclusion |-> Implies(p, r)]
          [] form = "DisjunctiveSyllogism" ->
                [premises |-> <<Or(p, q), Not(p)>>, conclusion |-> q]
          [] form = "Simplification" ->
                [premises |-> <<And(p, q)>>, conclusion |-> p]
          [] form = "Conjunction" ->
                [premises |-> <<p, q>>, conclusion |-> And(p, q)]
          [] form = "ConstructiveDilemma" ->
                [premises |-> <<And(Implies(p, q), Implies(r, s)), Or(p, r)>>,
                 conclusion |-> Or(q, s)]
          [] form = "ConstructiveDilemmaFull" ->
                [premises |-> <<Or(p, q), Implies(p, r), Implies(q, r)>>,
                 conclusion |-> r]
          [] form = "NestedCP" ->
                [premises |-> <<Implies(p, Implies(q, r)), p, q>>, conclusion |-> r]
          [] form = "Chain4" ->
                [premises |-> <<Implies(p, q), Implies(q, r), Implies(r, s), p>>,
                 conclusion |-> s]

\* The set of (premises, conclusion) pairs the call can return: the form is
\* drawn by rng.gen_range(0..available_forms.len()).
generate_base_theorem_with_complexity(config, use_complex) ==
    LET atom_names == config.atom_pool
        not_chain4(f) == f # "Chain4"
        not_three_atom(f) == f \notin {"NestedCP", "ConstructiveDilemmaFull"}
        forms1 == IF Len(atom_names) < 4
                  THEN SelectSeq(BaseForm_complex, not_chain4) ELSE BaseForm_complex
        forms2 == IF Len(atom_names) < 3 THEN SelectSeq(forms1, not_three_atom) ELSE forms1
        available_forms ==
            IF use_complex
            THEN (IF forms2 = <<>> THEN for_atom_count(Len(atom_names)) ELSE forms2)
            ELSE for_atom_count(Len(atom_names))
    IN  IF atom_names = <<>>
        THEN { [premises |-> <<>>, conclusion |-> Implies(Atom("P"), Atom("P"))] }
        ELSE IF available_forms = <<>>
        THEN { [premises |-> <<>>,
                conclusion |-> Implies(Atom(atom_names[1]), Atom(atom_names[1]))] }
        ELSE { instantiate_base_form(available_forms[i], atom_names) :
                   i \in DOMAIN available_forms }

(***************************************************************************)
(* services/obfuscate_gen.rs: substitution layer.  The seeded generator is *)
(* an argument rng, a record of the values its draws return:               *)
(*   shuffle  0 or 1: every gen_range(0..=i) of a Fisher-Yates shuffle     *)
(*            returns i * shuffle (swap with the first element, or none);  *)
(*   conn     the value of every gen_range(0..3) connective draw;          *)
(*   pick     every index draw gen_range(0..n) returns min(pick, n - 1);   *)
(*   kind     the value of every gen_range(0..4) expansion draw.           *)
(***************************************************************************)
Swap(s, i, j) == [s EXCEPT ![i] = s[j], ![j] = s[i]]

\* for i in (1..len).rev() { j = gen_range(0..=i); swap(i, j) }, 0-based i
RECURSIVE shuffle_from(_, _, _)
shuffle_from(s, i, rng) ==
    IF i < 1 THEN s
    ELSE shuffle_from(Swap(s, i + 1, (i * rng.shuffle) + 1), i - 1, rng)

shuffle(s, rng) == shuffle_from(s, Len(s) - 1, rng)

gen_index(rng, n) == Min(rng.pick, n - 1) + 1

RECURSIVE SortAtoms(_)
SortAtoms(names) ==
    IF names = {} THEN <<>>
    ELSE LET first == CHOOSE a \in names :
                          \A b \in names : AlphaIndex(a) <= AlphaIndex(b)
         IN  <<first>> \o SortAtoms(names \ {first})

random_binary_connective(rng, left, right) ==
    CASE rng.conn = 0 -> And(left, right)
      [] rng.conn = 1 -> Or(left, right)
      [] OTHER -> Implies(left, right)

RECURSIVE collect_leaf_paths(_, _)
collect_leaf_paths(formula, current_path) ==
    CASE Kind(formula) = "Not" ->
            collect_leaf_paths(formula[2], Append(current_path, 0))
      [] IsBinary(formula) ->
            collect_leaf_paths(formula[2], Append(current_path, 1))
                \o collect_leaf_paths(formula[3], Append(current_path, 2))
      [] OTHER -> <<current_path>>

RECURSIVE formula_at_path(_, _)
formula_at_path(formula, path) ==
    IF path = <<>> THEN formula
    ELSE CASE Kind(formula) = "Not" /\ Head(path) = 0 ->
                 formula_at_path(formula[2], Tail(path))
           [] IsBinary(formula) /\ Head(path) = 1 ->
                 formula_at_path(formula[2], Tail(path))
           [] IsBinary(formula) /\ Head(path) = 2 ->
                 formula_at_path(formula[3], Tail(path))
           [] OTHER -> formula

RECURSIVE replace_at_growth_path(_, _, _)
replace_at_growth_path(formula, path, replacement) ==
    IF path = <<>> THEN replacement
    ELSE CASE Kind(formula) = "Not" /\ Head(path) = 0 ->
                 Not(replace_at_growth_path(formula[2], Tail(path), replacement))
           [] IsBinary(formula) /\ Head(path) = 1 ->
                 Rebuild(formula,
                         replace_at_growth_path(formula[2], Tail(path), replacement),
                         formula[3])
           [] IsBinary(formula) /\ Head(path) = 2 ->
                 Rebuild(formula, formula[2],
                         replace_at_growth_path(formula[3], Tail(path), replacement))
           [] OTHER -> formula

grow_random_leaf(rng, formula, atom_names, max_depth) ==
    LET leaf_paths == collect_leaf_paths(formula, <<>>)
        path == leaf_paths[gen_index(rng, Len(leaf_paths))]
        new_atom == Atom(atom_names[gen_index(rng, Len(atom_names))])
        current_leaf == formula_at_path(formula, path)
        expansion ==
            CASE rng.kind = 0 -> Not(current_leaf)
              [] rng.kind = 1 -> random_binary_connective(rng, current_leaf, new_atom)
              [] rng.kind = 2 -> random_binary_connective(rng, new_atom, current_leaf)
              [] OTHER -> random_binary_connective(rng, current_leaf, Not(new_atom))
    IN  IF leaf_paths = <<>> THEN formula
        ELSE IF Len(path) >= max_depth + 2 THEN formula
        ELSE replace_at_growth_path(formula, path, expansion)

\* One level of the balanced seed tree: neighbours are paired, an odd last
\* element is carried over.
RECURSIVE next_level(_, _)
next_level(formulas, rng) ==
    IF Len(formulas) >= 2
    THEN <<random_binary_connective(rng, formulas[1], formulas[2])>>
            \o next_level(SubSeq(formulas, 3, Len(formulas)), rng)
    ELSE formulas

RECURSIVE build_seed(_, _)
build_seed(formulas, rng) ==
    IF Len(formulas) > 1 THEN build_seed(next_level(formulas, rng), rng)
    ELSE formulas[1]

RECURSIVE grow_passes(_, _, _, _, _)
grow_passes(rng, seed, atom_names, depth_limit, growth_passes) ==
    IF growth_passes = 0 THEN seed
    ELSE grow_passes(rng, grow_random_leaf(rng, seed, atom_names, depth_limit),
                     atom_names, depth_limit, growth_passes - 1)

random_formula(rng, depth_limit, atom_names) ==
    IF atom_names = <<>> THEN Atom("X")
    ELSE IF Len(atom_names) = 1 THEN Atom(atom_names[1])
    ELSE LET shuffled == shuffle(atom_names, rng)
             seed == build_seed([i \in DOMAIN shuffled |-> Atom(shuffled[i])], rng)
         IN  grow_passes(rng, seed, atom_names, depth_limit, depth_limit * 2)

RECURSIVE substitute_all(_, _)
substitute_all(formula, subs) ==
    CASE Kind(formula) = "Atom" ->
            IF formula[2] \in DOMAIN subs THEN subs[formula[2]] ELSE formula
      [] Kind(formula) = "Not" -> Not(substitute_all(formula[2], subs))
      [] IsBinary(formula) ->
            Rebuild(formula, substitute_all(formula[2], subs),
                    substitute_all(formula[3], subs))
      [] OTHER -> formula

\* Each bridge atom is pushed onto the first two groups of a fresh shuffle
\* of the group indices.
RECURSIVE add_bridges(_, _, _)
add_bridges(groups, bridges, rng) ==
    IF bridges = <<>> \/ Len(groups) < 2 THEN groups
    ELSE LET indices == shuffle([i \in DOMAIN groups |-> i], rng)
             bridge == Head(bridges)
             pushed == [groups EXCEPT ![indices[1]] = Append(@, bridge),
                                      ![indices[2]] = Append(@, bridge)]
         IN  add_bridges(pushed, Tail(bridges), rng)

sub_atom_groups(config, base_atoms, rng) ==
    LET n == Len(base_atoms)
        not_base(a) == ~Contains(base_atoms, a)
        remaining == SelectSeq(config.atom_pool, not_base)
        sub_atoms == SubSeq(Alphabet, 1, Min(n * 2, Len(Alphabet)))
        bridge_count == Min(config.bridge_atoms, Len(remaining))
        bridging == bridge_count > 0 /\ n >= 2
        shuffled_remaining == shuffle(remaining, rng)
        bridges == IF bridging THEN SubSeq(shuffled_remaining, 1, bridge_count)
                   ELSE <<>>
        non_bridge == IF bridging
                      THEN SubSeq(shuffled_remaining, bridge_count + 1,
                                  Len(shuffled_remaining))
                      ELSE remaining
        chunk_size == Len(non_bridge) \div n
        leftover == Len(non_bridge) % n
        \* 0-based offset of the chunk of base atom i (1-based)
        offset(i) == (i - 1) * chunk_size + Min(i - 1, leftover)
        size(i) == chunk_size + (IF i - 1 < leftover THEN 1 ELSE 0)
        groups ==
            IF non_bridge = <<>> THEN [i \in 1 .. n |-> <<base_atoms[i]>>]
            ELSE IF Len(non_bridge) < n
                THEN [i \in 1 .. n |-> <<base_atoms[i]>> \o non_bridge]
            ELSE [i \in 1 .. n |->
                     <<base_atoms[i]>>
                         \o SubSeq(non_bridge, offset(i) + 1, offset(i) + size(i))]
    IN  IF remaining = <<>>
        THEN [i \in 1 .. n |->
                 <<base_atoms[i]>>
                     \o SubSeq(sub_atoms, 2 * (i - 1) + 1,
                               Min(2 * (i - 1) + 2, Len(sub_atoms)))]
        ELSE IF Len(remaining) < n
        THEN [i \in 1 .. n |-> <<base_atoms[i]>> \o remaining]
        ELSE add_bridges(groups, bridges, rng)

RECURSIVE atoms_of_all(_)
atoms_of_all(formulas) ==
    IF formulas = <<>> THEN {}
    ELSE atoms(Head(formulas)) \cup atoms_of_all(Tail(formulas))

apply_substitutions(config, premises, conclusion, rng) ==
    LET base_atoms == SortAtoms(atoms_of_all(premises) \cup atoms(conclusion))
        groups == sub_atom_groups(config, base_atoms, rng)
        substitutions ==
            [a \in Range(base_atoms) |->
                random_formula(rng, config.substitution_depth,
                               groups[CHOOSE i \in DOMAIN base_atoms : base_atoms[i] = a])]
    IN  IF config.substitution_depth = 0
        THEN [premises |-> premises, conclusion |-> conclusion]
        ELSE [premises |-> [i \in DOMAIN premises |->
                               substitute_all(premises[i], substitutions)],
              conclusion |-> substitute_all(conclusion, substitutions)]

wrap_as_conditional(premises, conclusion) ==
    LET RECURSIVE reduce(_, _)
        reduce(acc, rest) ==
            IF rest = <<>> THEN acc ELSE reduce(And(acc, Head(rest)), Tail(rest))
    IN  IF premises = <<>> THEN conclusion
        ELSE Implies(reduce(Head(premises), Tail(premises)), conclusion)

(***************************************************************************)
(* services/obfuscate_gen.rs: rewriting.  A call that consults the seeded  *)
(* generator is the set of the values it can return.                       *)
(***************************************************************************)
check_tautology(formula) ==
    IF Cardinality(atoms(formula)) <= 5 /\ atoms(formula) \subseteq StandardAtoms
    THEN is_tautology(formula)
    ELSE is_tautology_dynamic(formula)

RECURSIVE count_leading_negations(_)
count_leading_negations(formula) ==
    IF Kind(formula) = "Not" THEN 1 + count_leading_negations(formula[2]) ELSE 0

\* The (rule, result) pairs one rule contributes to find_applicable_rules.
applicable_results(rule, formula) ==
    IF rule = "Tautology"
    THEN (IF Kind(formula) = "And" /\ formula[2] = formula[3]
          THEN <<<<rule, formula[2]>>>> ELSE <<>>)
         \o (IF Kind(formula) = "Or" /\ formula[2] = formula[3]
             THEN <<<<rule, formula[2]>>>> ELSE <<>>)
    ELSE IF rule = "DoubleNegation" /\ count_leading_negations(formula) >= 2
    THEN (IF Kind(formula) = "Not" /\ Kind(formula[2]) = "Not"
          THEN <<<<rule, formula[2][2]>>>> ELSE <<>>)
    ELSE LET equivalents == equivalent_forms(rule, formula)
         IN  [i \in DOMAIN equivalents |-> <<rule, equivalents[i]>>]

find_applicable_rules(formula) ==
    Flatten([i \in DOMAIN EquivalenceRules |->
                applicable_results(EquivalenceRules[i], formula)])

\* The subformulas are tried in a shuffled order and one candidate is drawn
\* for each; the first candidate whose result passes check_tautology is
\* returned.  Some(result) is possible for every passing candidate, None
\* when every position has no candidate or one that fails the check.
first_passing(formula, candidates) ==
    LET subs == subformulas_with_paths(formula)
        results(i) == { replace_at_path(formula, subs[i][1], e) :
                            e \in Range(candidates[i]) }
    IN  { Some(r) : r \in { x \in UNION { results(i) : i \in DOMAIN subs } :
                               check_tautology(x) } }
        \cup (IF \A i \in DOMAIN subs :
                    \/ results(i) = {}
                    \/ \E x \in results(i) : ~check_tautology(x)
              THEN {None} ELSE {})

try_apply_specific_rule(formula, rule) ==
    LET subs == subformulas_with_paths(formula)
    IN  first_passing(formula,
                      [i \in DOMAIN subs |-> equivalent_forms(rule, subs[i][2])])

try_apply_random_equivalence(formula) ==
    LET subs == subformulas_with_paths(formula)
        equivalents(i) == find_applicable_rules(subs[i][2])
    IN  first_passing(formula,
                      [i \in DOMAIN subs |->
                          [k \in DOMAIN equivalents(i) |-> equivalents(i)[k][2]]])

\* Faulty variant: a single negation is dropped as well as a double one.
RECURSIVE simplify_negations_dropping_single(_)
simplify_negations_dropping_single(formula) ==
    CASE Kind(formula) = "Not" -> simplify_negations_dropping_single(formula[2])
      [] IsBinary(formula) ->
            Rebuild(formula, simplify_negations_dropping_single(formula[2]),
                    simplify_negations_dropping_single(formula[3]))
      [] OTHER -> formula

RECURSIVE simplify_negations(_)
simplify_negations(formula) ==
    CASE Kind(formula) = "Not" ->
            LET simplified_inner == simplify_negations(formula[2])
            IN  IF Kind(simplified_inner) = "Not"
                THEN simplify_negations(simplified_inner[2])
                ELSE Not(simplified_inner)
      [] IsBinary(formula) ->
            Rebuild(formula, simplify_negations(formula[2]),
                    simplify_negations(formula[3]))
      [] OTHER -> formula

gnarly_rules ==
    << <<"Contraposition", "DeMorgan">>,
       <<"Implication", "Distribution">>,
       <<"Exportation", "DoubleNegation">>,
       <<"Equivalence", "DeMorgan">> >>

combo_count(config) == IF config.difficulty_value >= 96 THEN 3 ELSE 2

\* The rule sequences apply_gnarly_combos can work through: the rules of the
\* first combo_count combos of any shuffle of the four.
gnarly_rule_sequences(config) ==
    LET k == Min(combo_count(config), Len(gnarly_rules))
        orders == { o \in [1 .. k -> DOMAIN gnarly_rules] :
                        \A a, b \in 1 .. k : a # b => o[a] # o[b] }
    IN  { Flatten([i \in 1 .. k |-> gnarly_rules[o[i]]]) : o \in orders }

(***************************************************************************)
(* The spec-driven generator as a state machine: one call of               *)
(* generate_with_spec, gen.pc being the position inside run_spec_pipeline  *)
(* and apply_transformations.                                              *)
(***************************************************************************)
DifficultySpec(variables, passes, transforms_per_pass, base_complexity, substitution_depth, max_formula_nodes, max_formula_depth, bridge_atoms, gnarly_combos) ==
    [variables |-> variables, passes |-> passes,
     transforms_per_pass |-> transforms_per_pass,
     base_complexity |-> base_complexity,
     substitution_depth |-> substitution_depth,
     max_formula_nodes |-> max_formula_nodes,
     max_formula_depth |-> max_formula_depth,
     bridge_atoms |-> bridge_atoms,
     gnarly_combos |-> gnarly_combos]

\* DifficultySpec::from_tier(Baby)
BabySpec ==
    DifficultySpec(2, 1, 2, "Simple", 0, None, None, Some(0), Some(FALSE))

\* Complex base forms over three atoms, one rewrite.
ComplexSpec ==
    DifficultySpec(3, 1, 1, "Complex", 0, None, None, None, None)

\* One substitution level over a two-atom pool, one rewrite.
SubstitutionSpec ==
    DifficultySpec(2, 1, 1, "Simple", 1, None, None, None, None)

\* Sixteen single-rewrite passes (difficulty value 85, gnarly combos) over a
\* one-atom pool, cut short by the node bound.
GnarlySpec ==
    DifficultySpec(1, 16, 1, "Simple", 0, Some(4), None, None, Some(TRUE))

\* An empty atom pool and no pass at all.
EmptySpec ==
    DifficultySpec(0, 0, 0, "Simple", 0, None, None, None, None)

\* Gnarly combos requested explicitly (main.rs sets spec.gnarly_combos from
\* --gnarly-combos) at a difficulty value far below 85.
ExplicitGnarlySpec ==
    DifficultySpec(1, 1, 1, "Simple", 0, None, None, None, Some(TRUE))

\* A depth bound of one (main.rs sets spec.max_formula_depth from
\* --max-depth), which every wrapped base argument already reaches.
ShallowSpec ==
    DifficultySpec(1, 1, 1, "Simple", 0, None, Some(1), None, None)

DifficultySpecs ==
    {BabySpec, ComplexSpec, SubstitutionSpec, GnarlySpec, EmptySpec,
     ExplicitGnarlySpec, ShallowSpec}

RngScripts == [shuffle : {0, 1}, conn : 0 .. 2, pick : {0, 1}, kind : 0 .. 3]

GenInit ==
    /\ proof = Proof_new(make_mp_theorem)
    /\ undos = 0
    /\ rewrite = None
    /\ call = None
    /\ \E spec \in DifficultySpecs :
          gen = [pc |-> "generate_base_theorem", spec |-> spec,
                 config |-> from_spec(spec), premises |-> <<>>,
                 conclusion |-> None, formula |-> None, pass |-> 0,
                 pending |-> <<>>, successful_transforms |-> 0, attempts |-> 0,
                 theorem |-> None]

\* Layer 1: let (premises, conclusion) = gen.generate_base_theorem_with_complexity(..)
GenerateBaseTheorem ==
    /\ gen # None
    /\ gen.pc = "generate_base_theorem"
    /\ \E base \in generate_base_theorem_with_complexity(
                       gen.config, gen.spec.base_complexity = "Complex") :
          gen' = [gen EXCEPT !.pc = "apply_substitutions",
                             !.premises = base.premises,
                             !.conclusion = base.conclusion]
    /\ UNCHANGED <<proof, undos, rewrite, call>>

\* Layer 2: apply_substitutions if spec.substitution_depth > 0
ApplySubstitutions ==
    /\ gen # None
    /\ gen.pc = "apply_substitutions"
    /\ IF gen.spec.substitution_depth > 0
       THEN \E rng \in RngScripts :
               LET substituted == apply_substitutions(gen.config, gen.premises,
                                                      gen.conclusion, rng)
               IN  gen' = [gen EXCEPT !.pc = "wrap_as_conditional",
                                      !.premises = substituted.premises,
                                      !.conclusion = substituted.conclusion]
       ELSE gen' = [gen EXCEPT !.pc = "wrap_as_conditional"]
    /\ UNCHANGED <<proof, undos, rewrite, call>>

WrapAsConditional ==
    /\ gen # None
    /\ gen.pc = "wrap_as_conditional"
    /\ gen' = [gen EXCEPT !.pc = "pass",
                          !.formula = wrap_as_conditional(gen.premises, gen.conclusion)]
    /\ UNCHANGED <<proof, undos, rewrite, call>>

max_nodes(spec) ==
    IF spec.max_formula_nodes = None THEN MAX_FORMULA_NODES
    ELSE Unwrap(spec.max_formula_nodes)

\* Head of the multi-pass loop, and the head of apply_transformations when a
\* pass is started.
StartPass ==
    /\ gen # None
    /\ gen.pc = "pass"
    /\ IF \/ gen.pass >= gen.spec.passes
          \/ depth(gen.formula) >= MAX_FORMULA_DEPTH
          \/ node_count(gen.formula) >= max_nodes(gen.spec)
       THEN gen' = [gen EXCEPT !.pc = "return"]
       ELSE IF gen.config.difficulty_value >= 85
       THEN \E rules \in gnarly_rule_sequences(gen.config) :
               gen' = [gen EXCEPT !.pc = "apply_gnarly_combos", !.pending = rules]
       ELSE gen' = [gen EXCEPT !.pc = "rewrite", !.successful_transforms = 0,
                               !.attempts = 0]
    /\ UNCHANGED <<proof, undos, rewrite, call>>

\* One iteration of the rule loop of apply_gnarly_combos.
ApplyGnarlyRule ==
    /\ gen # None
    /\ gen.pc = "apply_gnarly_combos"
    /\ IF gen.pending = <<>>
       THEN gen' = [gen EXCEPT !.pc = "rewrite", !.successful_transforms = 0,
                               !.attempts = 0]
       ELSE \E transformed \in try_apply_specific_rule(gen.formula, Head(gen.pending)) :
               gen' = [gen EXCEPT
                          !.pending = Tail(gen.pending),
                          !.formula = IF transformed = None THEN gen.formula
                                      ELSE Unwrap(transformed)]
    /\ UNCHANGED <<proof, undos, rewrite, call>>

\* Faulty variant: the loop stops only when the attempts are used up.
RewriteAttempt_ignoring_transform_count ==
    /\ gen # None
    /\ gen.pc = "rewrite"
    /\ gen.attempts < gen.config.transform_count * 10
    /\ \E transformed \in try_apply_random_equivalence(gen.formula) :
          gen' = [gen EXCEPT
                     !.attempts = gen.attempts + 1,
                     !.formula = IF transformed = None THEN gen.formula
                                 ELSE Unwrap(transformed),
                     !.successful_transforms =
                         IF transformed = None THEN gen.successful_transforms
                         ELSE gen.successful_transforms + 1]
    /\ UNCHANGED <<proof, undos, rewrite, call>>

\* One iteration of the while loop of apply_transformations.
RewriteAttempt ==
    /\ gen # None
    /\ gen.pc = "rewrite"
    /\ gen.successful_transforms < gen.config.transform_count
    /\ gen.attempts < gen.config.transform_count * 10
    /\ \E transformed \in try_apply_random_equivalence(gen.formula) :
          gen' = [gen EXCEPT
                     !.attempts = gen.attempts + 1,
                     !.formula = IF transformed = None THEN gen.formula
                                 ELSE Unwrap(transformed),
                     !.successful_transforms =
                         IF transformed = None THEN gen.successful_transforms
                         ELSE gen.successful_transforms + 1]
    /\ UNCHANGED <<proof, undos, rewrite, call>>

\* The exit of the while loop: simplify_negations ends the pass.
SimplifyNegations ==
    /\ gen # None
    /\ gen.pc = "rewrite"
    /\ ~(/\ gen.successful_transforms < gen.config.transform_count
         /\ gen.attempts < gen.config.transform_count * 10)
    /\ gen' = [gen EXCEPT !.pc = "pass", !.pass = gen.pass + 1,
                          !.formula = simplify_negations(gen.formula)]
    /\ UNCHANGED <<proof, undos, rewrite, call>>

\* generate_with_spec wraps the formula into a Theorem without premises.
ReturnTheorem ==
    /\ gen # None
    /\ gen.pc = "return"
    /\ gen' = [gen EXCEPT !.pc = "done",
                          !.theorem = Some([premises |-> <<>>,
                                            conclusion |-> gen.formula,
                                            difficulty |-> "Expert",
                                            difficulty_value |-> 100])]
    /\ UNCHANGED <<proof, undos, rewrite, call>>

GenNext ==
    \/ GenerateBaseTheorem
    \/ ApplySubstitutions
    \/ WrapAsConditional
    \/ StartPass
    \/ ApplyGnarlyRule
    \/ RewriteAttempt
    \/ SimplifyNegations
    \/ ReturnTheorem

GenSpec == GenInit /\ [][GenNext]_vars

(***************************************************************************)
(* Properties of the generator (checked under GenSpec)                     *)
(***************************************************************************)
TrueUnderEveryAssignment(f) ==
    \A true_atoms \in SUBSET atoms(f) : Eval(f, true_atoms)

\* C7: for every DifficultySpec and every outcome of the random draws, the
\* formula the pipeline holds from the wrapped base argument onwards, after
\* every gnarly-combo step, rewrite step and negation simplification, and the
\* formula it returns, is true under every assignment of its atoms.
C7_PipelineTautology ==
    /\ gen.formula # None => TrueUnderEveryAssignment(gen.formula)
    /\ gen.theorem # None => TrueUnderEveryAssignment(Unwrap(gen.theorem).conclusion)

\* C7 witness: a run with gnarly combos has returned a formula that the
\* gnarly rules, a rewrite and the negation simplification have changed.
C7_Witness ==
    /\ gen.pc = "done"
    /\ gen.config.difficulty_value >= 85
    /\ gen.pass >= 1
    /\ Unwrap(gen.theorem).conclusion # wrap_as_conditional(gen.premises, gen.conclusion)

\* C9: for every theorem produced by the generator (empty
\* premise list, conclusion = the obfuscated tautology), validate_theorem
\* returns the TautologicalConclusion error, never Ok.
C9_ValidateTautologicalConclusion ==
    gen.theorem # None =>
        /\ Unwrap(gen.theorem).premises = <<>>
        /\ validate_theorem(Unwrap(gen.theorem).premises,
                            Unwrap(gen.theorem).conclusion) = "TautologicalConclusion"

\* C9 witness: a theorem was returned whose conclusion went through the
\* substitution layer and a rewrite pass and uses atoms outside P..T.
C9_Witness ==
    /\ gen.theorem # None
    /\ gen.spec.substitution_depth > 0
    /\ gen.pass >= 1
    /\ ~(atoms(Unwrap(gen.theorem).conclusion) \subseteq StandardAtoms)

\* C9 (as claimed): for every theorem produced by the generator,
\* validate_theorem(premises, conclusion) returns Ok.
C9_ValidateOk ==
    gen.theorem # None =>
        validate_theorem(Unwrap(gen.theorem).premises,
                         Unwrap(gen.theorem).conclusion) = "Ok"

(***************************************************************************)
(* Structural properties of the proof and its scopes (checked under Spec)  *)
(***************************************************************************)
\* The line numbers a scope covers: [start_line, end_line] when closed,
\* [start_line, infinity) when open, cut to the numbers a proof can hold.
ScopeRange(sc) == { n \in LineNumbers : contains_line(sc, n) }

\* C11 (as claimed): in every state reached by open_subproof, add_line,
\* close_subproof and remove_last_line, scopes nest strictly: the line ranges
\* of any two scopes are either disjoint or one contains the other.
C11_ScopesNest ==
    \A i \in DOMAIN proof.scope_manager.scopes, j \in DOMAIN proof.scope_manager.scopes :
        LET a == ScopeRange(proof.scope_manager.scopes[i])
            b == ScopeRange(proof.scope_manager.scopes[j])
        IN  a \cap b = {} \/ a \subseteq b \/ b \subseteq a

\* C12: in every state reached by add_line, open_subproof, close_subproof and
\* remove_last_line, the i-th line of the proof has line_number i (1-based,
\* consecutive, no gaps, no duplicates).
C12_LineNumbersConsecutive ==
    \A i \in DOMAIN proof.lines : proof.lines[i].line_number = i

\* Lines were removed and lines were appended again after them: the proof holds
\* an Assumption, a SubproofConclusion and an Inference line after two undos.
C12_Witness ==
    /\ undos = MaxUndos
    /\ Len(proof.lines) = MaxLines
    /\ LinesOfKind("Assumption") # {}
    /\ LinesOfKind("SubproofConclusion") # {}
    /\ LinesOfKind("Inference") # {}

\* The fields of a line that C13 says never change.
Content(line) ==
    <<line.line_number, line.formula, line.justification, line.depth>>

\* lines1 is lines0 with every line's content kept.
SameContent(lines0, lines1) ==
    /\ Len(lines1) = Len(lines0)
    /\ \A i \in DOMAIN lines0 : Content(lines1[i]) = Content(lines0[i])

\* What C13 says of one step of the proof kernel.
LinesFrame ==
    /\ (AddLine \/ OpenSubproof \/ CloseSubproof) =>
          \/ proof'.lines = proof.lines
          \/ /\ Len(proof'.lines) = Len(proof.lines) + 1
             /\ SubSeq(proof'.lines, 1, Len(proof.lines)) = proof.lines
    /\ RemoveLastLine =>
          \/ proof'.lines = proof.lines
          \/ proof'.lines = SubSeq(proof.lines, 1, Len(proof.lines) - 1)
    /\ VerifyProof =>
          /\ SameContent(proof.lines, proof'.lines)
          /\ \A i \in DOMAIN proof.lines :
                proof'.lines[i].scope_id = proof.lines[i].scope_id
          /\ proof'.theorem = proof.theorem
          /\ proof'.scope_manager = proof.scope_manager
          /\ proof'.is_complete = proof.is_complete
    /\ \A i \in DOMAIN proof.lines \cap DOMAIN proof'.lines :
          Content(proof'.lines[i]) = Content(proof.lines[i])

\* C13: no operation changes the line_number, formula, justification or depth
\* of an already-appended line: add_line, open_subproof and close_subproof
\* only append, remove_last_line only removes the last line, and verify_proof
\* changes nothing in the proof except each line's is_valid and
\* validation_message.
C13_LinesAppendOnly == [][LinesFrame]_vars

\* verify_proof has overwritten is_valid and validation_message of a line at
\* depth 1 that follows an Assumption, after a line was removed.
C13_Witness ==
    /\ undos > 0
    /\ \E i \in DOMAIN proof.lines :
          /\ proof.lines[i].depth = 1
          /\ Kind(proof.lines[i].justification) = "Inference"
          /\ ~proof.lines[i].is_valid
          /\ proof.lines[i].validation_message # None

(***************************************************************************)
(* The semantic oracle as a state machine: a theorem (premises,            *)
(* conclusion) is drawn from a bounded set and validate_theorem, entails / *)
(* are_equivalent and the two truth-table engines are applied to it.       *)
(***************************************************************************)
\* Upper bound on the number of premises of the theorems given to the oracle.
MaxPremises == 2

\* The formulas the theorems are built from: standard atoms, a non-standard
\* atom, a tautology, contradictions, and a formula over all five standard atoms.
OracleFormulas ==
    { P, Q, Atom("R"), Atom("A"), Not(P), Not(Q), Implies(P, Q), Implies(P, P),
      And(P, Not(P)), Or(P, Q), Biconditional(P, Q), Contradiction,
      And(And(P, Q), And(Atom("R"), And(Atom("S"), Atom("T")))) }

PremiseLists == UNION { [1 .. n -> OracleFormulas] : n \in 0 .. MaxPremises }

OracleInit ==
    /\ proof = Proof_new(make_mp_theorem)
    /\ undos = 0
    /\ rewrite = None
    /\ gen = None
    /\ \E premises \in PremiseLists, conclusion \in OracleFormulas :
          call = [premises |-> premises, conclusion |-> conclusion,
                  result |-> None, entailment |-> None, tables |-> None]

ValidateTheorem ==
    /\ call.result = None
    /\ call' = [call EXCEPT
                   !.result = Some(validate_theorem(call.premises, call.conclusion))]
    /\ UNCHANGED <<proof, undos, rewrite, gen>>

Entails ==
    /\ call.entailment = None
    /\ call' = [call EXCEPT !.entailment =
                   Some([entails |-> entails(call.premises, call.conclusion),
                         equivalent |-> [i \in DOMAIN call.premises |->
                             are_equivalent(call.premises[i], call.conclusion)]])]
    /\ UNCHANGED <<proof, undos, rewrite, gen>>

ComputeTruthTables ==
    /\ call.tables = None
    /\ call' = [call EXCEPT !.tables =
                   Some([tt32 |-> compute_truth_table(call.conclusion),
                         dyn |-> compute_truth_table_dynamic(call.conclusion)])]
    /\ UNCHANGED <<proof, undos, rewrite, gen>>

OracleNext ==
    \/ ValidateTheorem
    \/ Entails
    \/ ComputeTruthTables

OracleSpec == OracleInit /\ [][OracleNext]_vars

\* The nine degeneracy checks in the order C14 lists them; TRUE means passed.
DegeneracyChecks(premises, conclusion) ==
    << premises_consistent(premises),
       \A i \in DOMAIN premises : ~is_tautology(premises[i]),
       ~is_tautology(conclusion),
       ~single_premise_entails(premises, conclusion),
       ~conclusion_negation_available(premises, conclusion),
       ~conditional_trivial_via_explosion(premises, conclusion),
       ~has_redundant_premises(premises),
       all_premises_necessary(premises, conclusion),
       entails(premises, conclusion) >>

\* The error kind each check reports, in the same order.
DegenerateProofError ==
    << "ContradictoryPremises", "TautologicalPremise", "TautologicalConclusion",
       "SinglePremiseEntails", "NegationOfConclusionAvailable",
       "ConditionalTrivialViaExplosion", "RedundantPremises", "UnnecessaryPremise",
       "InvalidTheorem" >>

SemanticallyEntails(premises, conclusion) ==
    \A true_atoms \in SUBSET (atoms(conclusion) \cup
                               UNION { atoms(premises[i]) : i \in DOMAIN premises }) :
        (\A i \in DOMAIN premises : Eval(premises[i], true_atoms))
            => Eval(conclusion, true_atoms)

\* C15 (as claimed): a theorem whose premises do not semantically entail its
\* conclusion, and which trips none of the earlier degeneracy checks (the
\* necessity check read as: removing any single premise breaks entailment),
\* is reported by validate_theorem as InvalidTheorem.
C15_InvalidTheoremReported ==
    call.result # None =>
        LET checks == DegeneracyChecks(call.premises, call.conclusion)
        IN  (/\ ~SemanticallyEntails(call.premises, call.conclusion)
             /\ \A k \in 1 .. 7 : checks[k]
             /\ \A i \in DOMAIN call.premises :
                   ~entails(RemoveAt(call.premises, i), call.conclusion))
            => Unwrap(call.result) = "InvalidTheorem"

\* C16 (as claimed): the oracle predicates are evaluated over the union of the
\* atoms of all participating formulas, whatever the atom names are:
\* are_equivalent(f, g) holds exactly when f and g have the same value under
\* every assignment, and entails(premises, conclusion) exactly when no
\* assignment makes all premises true and the conclusion false.
C16_OracleOverUnionOfAtoms ==
    call.entailment # None =>
        /\ Unwrap(call.entailment).entails <=>
              SemanticallyEntails(call.premises, call.conclusion)
        /\ \A i \in DOMAIN call.premises :
              Unwrap(call.entailment).equivalent[i] <=>
                  SameTruthTable(call.premises[i], call.conclusion)

\* The 5-variable dynamic truth table of f: the table compute_truth_table_dynamic
\* builds when the sorted atoms are P, Q, R, S, T.
Dyn5(f) == eval_dyn(f, StandardAtoms, 5)

\* C17 (as claimed): for every formula whose atoms are a subset of
\* {P,Q,R,S,T}, bit r of the 32-bit truth table equals bit r of the
\* 5-variable dynamic truth table for every row r in 0..31.
C17_TablesBitForBit ==
    (call.tables # None /\ atoms(call.conclusion) \subseteq StandardAtoms) =>
        LET dyn5 == IF atoms(call.conclusion) = StandardAtoms
                    THEN Unwrap(call.tables).dyn ELSE Dyn5(call.conclusion)
        IN  \A r \in Rows32 : (r \in Unwrap(call.tables).tt32) <=> (r \in dyn5.bits)

(***************************************************************************)
(* models/formula.rs: ascii_string_bracketed and FormulaParser.  A string  *)
(* is the sequence of its characters, each a one-character string, and a   *)
(* position counts characters.  Atom names are single characters, so the   *)
(* name of an atom is also its only character.  A character outside ASCII *)
(* is written as its code point ("U+2261").                               *)
(***************************************************************************)
needs_parens_for_not(f) == Kind(f) \notin {"Atom", "Not", "Contradiction"}

RECURSIVE bracket_depth(_), subformula_bracket_depth(_)
bracket_depth(f) ==
    CASE Kind(f) = "Not" ->
            IF needs_parens_for_not(f[2]) THEN 1 + bracket_depth(f[2])
            ELSE bracket_depth(f[2])
      [] IsBinary(f) ->
            Max(subformula_bracket_depth(f[2]), subformula_bracket_depth(f[3]))
      [] OTHER -> 0

subformula_bracket_depth(f) ==
    CASE Kind(f) \in {"Atom", "Contradiction"} -> 0
      [] Kind(f) = "Not" /\ Kind(f[2]) = "Atom" -> 0
      [] OTHER -> 1 + bracket_depth(f)

brackets_for_level(current, max_depth) ==
    LET level_from_inside == max_depth - current - 1
    IN  CASE Min(level_from_inside, 2) = 0 -> <<"(", ")">>
          [] Min(level_from_inside, 2) = 1 -> <<"[", "]">>
          [] OTHER -> <<"{", "}">>

\* The symbol ascii_bracketed_inner writes between the operands of f.
ascii_symbol(f) ==
    CASE Kind(f) = "And" -> <<" ", ".", " ">>
      [] Kind(f) = "Or" -> <<" ", "v", " ">>
      [] Kind(f) = "Implies" -> <<" ", ">", " ">>
      [] Kind(f) = "Biconditional" -> <<" ", "<", ">", " ">>

RECURSIVE ascii_bracketed_inner(_), wrap_if_compound_ascii(_)
ascii_bracketed_inner(f) ==
    CASE Kind(f) = "Atom" -> <<f[2]>>
      [] Kind(f) = "Not" ->
            IF needs_parens_for_not(f[2])
            THEN LET b == brackets_for_level(0, bracket_depth(f[2]) + 1)
                 IN  <<"~", b[1]>> \o ascii_bracketed_inner(f[2]) \o <<b[2]>>
            ELSE <<"~">> \o ascii_bracketed_inner(f[2])
      [] IsBinary(f) ->
            wrap_if_compound_ascii(f[2]) \o ascii_symbol(f)
                \o wrap_if_compound_ascii(f[3])
      [] OTHER -> <<"#">>

wrap_if_compound_ascii(f) ==
    CASE Kind(f) \in {"Atom", "Contradiction"} -> ascii_bracketed_inner(f)
      [] Kind(f) = "Not" /\ Kind(f[2]) = "Atom" -> ascii_bracketed_inner(f)
      [] OTHER ->
            LET b == brackets_for_level(0, bracket_depth(f) + 1)
            IN  <<b[1]>> \o ascii_bracketed_inner(f) \o <<b[2]>>

ascii_string_bracketed(f) == ascii_bracketed_inner(f)

\* MAX_PARSE_DEPTH, the nesting limit of the parser.  The source sets 100; the
\* limit is scaled down here so that inputs just below, at and above it are
\* short.  No property below depends on its value.
MAX_PARSE_DEPTH == 4

\* Result<Formula, ParseError> of a parser method, with the parser's fields
\* pos and depth after the call.
ParseOk(formula, pos, parse_depth) ==
    [ok |-> TRUE, formula |-> formula, pos |-> pos, depth |-> parse_depth]

ParseError(message, position) ==
    [ok |-> FALSE, message |-> message, position |-> position]

\* format!("Formula too deeply nested (max {} levels)", MAX_PARSE_DEPTH)
MSG_TOO_DEEP == "Formula too deeply nested"

\* enter_depth: the depth after the call, and whether it returned Ok.
enter_depth(parse_depth) == [depth |-> parse_depth + 1, ok |-> parse_depth + 1 <= MAX_PARSE_DEPTH]

exit_depth(parse_depth) == saturating_sub(parse_depth, 1)

is_whitespace(c) == c \in {" ", "\t", "\n", "\r"}

Digits == {"0", "1", "2", "3", "4", "5", "6", "7", "8", "9"}

\* c.is_ascii_alphanumeric() || c == '_' || c == '\''
is_atom_char(c) ==
    c \in Range(Alphabet) \cup Range(LowerAlphabet) \cup Digits \cup {"_", "'"}

\* skip_whitespace: the position after the call.
RECURSIVE skip_whitespace(_, _)
skip_whitespace(input, pos) ==
    IF pos < Len(input) /\ is_whitespace(input[pos + 1])
    THEN skip_whitespace(input, pos + 1) ELSE pos

starts_with(input, pos, s) ==
    /\ pos + Len(s) <= Len(input)
    /\ \A i \in DOMAIN s : input[pos + i] = s[i]

\* matches(s): the value returned and the position after the call.
matches(input, pos, s) ==
    LET p == skip_whitespace(input, pos)
    IN  IF starts_with(input, p, s) THEN [hit |-> TRUE, pos |-> p + Len(s)]
        ELSE [hit |-> FALSE, pos |-> p]

\* self.matches(s1) || self.matches(s2) || ...: the first alternative that matches.
RECURSIVE matches_any(_, _, _)
matches_any(input, pos, alternatives) ==
    IF alternatives = <<>> THEN [hit |-> FALSE, pos |-> skip_whitespace(input, pos)]
    ELSE LET m == matches(input, pos, Head(alternatives))
         IN  IF m.hit THEN m ELSE matches_any(input, m.pos, Tail(alternatives))

BiconditionalSymbols == << <<"<", "-", ">">>, <<"U+2261">>, <<"<", "=", ">">> >>

ImplicationSymbols == << <<"-", ">">>, <<"U+2283">>, <<"=", ">">>, <<">">> >>

DisjunctionSymbols == << <<"|">>, <<"U+2228">>, <<"v">>, <<"V">> >>

ConjunctionSymbols == << <<"&">>, <<"U+00B7">>, <<"^">>, <<".">>, <<"*">> >>

NegationSymbols == << <<"~">>, <<"!">>, <<"U+00AC">>, <<"-">> >>

ContradictionSymbols == << <<"_", "|", "_">>, <<"U+22A5">>, <<"#">> >>

\* The end of the atom name that starts at pos.
RECURSIVE atom_end(_, _)
atom_end(input, pos) ==
    IF pos < Len(input) /\ is_atom_char(input[pos + 1])
    THEN atom_end(input, pos + 1) ELSE pos

\* input[start..pos].to_string()
RECURSIVE slice(_, _, _)
slice(input, start, pos) ==
    IF start >= pos THEN "" ELSE input[start + 1] \o slice(input, start + 1, pos)

RECURSIVE parse_biconditional(_, _, _), biconditional_loop(_, _)
RECURSIVE parse_implication(_, _, _), implication_loop(_, _)
RECURSIVE parse_disjunction(_, _, _), disjunction_loop(_, _)
RECURSIVE parse_conjunction(_, _, _), conjunction_loop(_, _)
RECURSIVE parse_negation(_, _, _), parse_atom(_, _, _), parse_bracketed(_, _, _, _, _)

\* The while loops of the binary levels.  acc is the result so far: left, and
\* the parser's pos and depth at the head of the loop, or the error that ended
\* the parse.
\* After the first operand: self.skip_whitespace().
first_operand(input, left) ==
    IF ~left.ok THEN left
    ELSE ParseOk(left.formula, skip_whitespace(input, left.pos), left.depth)

\* The rest of a loop iteration once the right operand is parsed:
\* left = Formula::<kind>(left, right); self.exit_depth(); self.skip_whitespace().
loop_step(input, kind, left, right) ==
    IF ~right.ok THEN right
    ELSE ParseOk(<<kind, left.formula, right.formula>>,
                 skip_whitespace(input, right.pos), exit_depth(right.depth))

biconditional_loop(input, acc) ==
    LET m == matches_any(input, acc.pos, BiconditionalSymbols)
        e == enter_depth(acc.depth)
    IN  IF ~acc.ok THEN acc
        ELSE IF ~m.hit THEN ParseOk(acc.formula, m.pos, acc.depth)
        ELSE IF ~e.ok THEN ParseError(MSG_TOO_DEEP, m.pos)
        ELSE biconditional_loop(input,
                 loop_step(input, "Biconditional", acc,
                           parse_implication(input, m.pos, e.depth)))

parse_biconditional(input, pos, parse_depth) ==
    biconditional_loop(input, first_operand(input, parse_implication(input, pos, parse_depth)))

\* The right operand is parsed by parse_implication itself (right associative).
implication_loop(input, acc) ==
    LET m == matches_any(input, acc.pos, ImplicationSymbols)
        e == enter_depth(acc.depth)
    IN  IF ~acc.ok THEN acc
        ELSE IF ~m.hit THEN ParseOk(acc.formula, m.pos, acc.depth)
        ELSE IF ~e.ok THEN ParseError(MSG_TOO_DEEP, m.pos)
        ELSE implication_loop(input,
                 loop_step(input, "Implies", acc,
                           parse_implication(input, m.pos, e.depth)))

parse_implication(input, pos, parse_depth) ==
    implication_loop(input, first_operand(input, parse_disjunction(input, pos, parse_depth)))

disjunction_loop(input, acc) ==
    LET m == matches_any(input, acc.pos, DisjunctionSymbols)
        e == enter_depth(acc.depth)
    IN  IF ~acc.ok THEN acc
        ELSE IF ~m.hit THEN ParseOk(acc.formula, m.pos, acc.depth)
        ELSE IF ~e.ok THEN ParseError(MSG_TOO_DEEP, m.pos)
        ELSE disjunction_loop(input,
                 loop_step(input, "Or", acc,
                           parse_conjunction(input, m.pos, e.depth)))

parse_disjunction(input, pos, parse_depth) ==
    disjunction_loop(input, first_operand(input, parse_conjunction(input, pos, parse_depth)))

conjunction_loop(input, acc) ==
    LET m == matches_any(input, acc.pos, ConjunctionSymbols)
        e == enter_depth(acc.depth)
    IN  IF ~acc.ok THEN acc
        ELSE IF ~m.hit THEN ParseOk(acc.formula, m.pos, acc.depth)
        ELSE IF ~e.ok THEN ParseError(MSG_TOO_DEEP, m.pos)
        ELSE conjunction_loop(input,
                 loop_step(input, "And", acc,
                           parse_negation(input, m.pos, e.depth)))

parse_conjunction(input, pos, parse_depth) ==
    conjunction_loop(input, first_operand(input, parse_negation(input, pos, parse_depth)))

\* Ok(Formula::Not(inner)) after self.exit_depth().
negation_of(inner) ==
    IF ~inner.ok THEN inner
    ELSE ParseOk(Not(inner.formula), inner.pos, exit_depth(inner.depth))

parse_negation(input, pos, parse_depth) ==
    LET m == matches_any(input, pos, NegationSymbols)
        e == enter_depth(parse_depth)
    IN  IF ~m.hit THEN parse_atom(input, m.pos, parse_depth)
        ELSE IF ~e.ok THEN ParseError(MSG_TOO_DEEP, m.pos)
        ELSE negation_of(parse_negation(input, m.pos, e.depth))

\* The closing bracket of a bracket arm of parse_atom, then self.exit_depth().
close_bracket(input, inner, closing, message) ==
    LET m == matches(input, inner.pos, <<closing>>)
    IN  IF ~inner.ok THEN inner
        ELSE IF ~m.hit THEN ParseError(message, m.pos)
        ELSE ParseOk(inner.formula, m.pos, exit_depth(inner.depth))

\* One bracket arm of parse_atom, entered after the opening bracket matched.
parse_bracketed(input, pos, parse_depth, closing, message) ==
    LET e == enter_depth(parse_depth)
    IN  IF ~e.ok THEN ParseError(MSG_TOO_DEEP, pos)
        ELSE close_bracket(input, parse_biconditional(input, pos, e.depth),
                           closing, message)

parse_atom(input, pos, parse_depth) ==
    LET c == matches_any(input, pos, ContradictionSymbols)
        paren == matches(input, c.pos, <<"(">>)
        bracket == matches(input, c.pos, <<"[">>)
        brace == matches(input, c.pos, <<"{">>)
        start == c.pos
        end == atom_end(input, start)
    IN  IF c.hit THEN ParseOk(Contradiction, c.pos, parse_depth)
        ELSE IF paren.hit
             THEN parse_bracketed(input, paren.pos, parse_depth, ")",
                                  "Expected closing parenthesis ')'")
        ELSE IF bracket.hit
             THEN parse_bracketed(input, bracket.pos, parse_depth, "]",
                                  "Expected closing bracket ']'")
        ELSE IF brace.hit
             THEN parse_bracketed(input, brace.pos, parse_depth, "}",
                                  "Expected closing brace '}'")
        ELSE IF end = start
             THEN ParseError("Expected atom, negation, or parenthesized expression", start)
        ELSE ParseOk(Atom(slice(input, start, end)), end, parse_depth)

\* FormulaParser::parse after parse_biconditional: nothing but whitespace may
\* follow the formula.
parse_end(input, result) ==
    LET end == skip_whitespace(input, result.pos)
    IN  IF ~result.ok THEN result
        ELSE IF end < Len(input) THEN ParseError("Unexpected character", end)
        ELSE ParseOk(result.formula, end, result.depth)

\* Formula::parse: the length check, then FormulaParser::new(input).parse()
parse(input) ==
    IF Len(input) > 10000 THEN ParseError("Formula too long (max 10000 chars)", 0)
    ELSE parse_end(input, parse_biconditional(input, skip_whitespace(input, 0), 0))

(***************************************************************************)
(* Formula printing, parsing and path replacement as a state machine: a    *)
(* formula or an input string is drawn from a bounded set and              *)
(* ascii_string_bracketed, FormulaParser::parse and replace_at_path are    *)
(* applied to it.                                                          *)
(***************************************************************************)
\* Number of atoms (P, Q, ...) of the formulas printed, parsed and rewritten.
FormulaAtoms == 1

FormulaLeaves == { Atom(Alphabet[15 + i]) : i \in 1 .. FormulaAtoms } \cup {Contradiction}

\* P . (P . (... . P)) with n conjunctions: a formula of depth n.
RECURSIVE RightNestedAnd(_)
RightNestedAnd(n) == IF n = 0 THEN P ELSE And(P, RightNestedAnd(n - 1))

\* Every formula of depth at most two over FormulaLeaves, and two formulas whose
\* depth is about half the parser's limit.
FormulaPool ==
    Grow(Grow(FormulaLeaves))
        \cup { RightNestedAnd((MAX_PARSE_DEPTH + 1) \div 2),
               RightNestedAnd((MAX_PARSE_DEPTH + 1) \div 2 + 1) }

RECURSIVE Repeat(_, _)
Repeat(s, n) == IF n = 0 THEN <<>> ELSE s \o Repeat(s, n - 1)

\* Nesting levels up to one above the parser's limit.
NestingLevels == 0 .. MAX_PARSE_DEPTH + 1

\* Input strings with n operators or brackets: ~~..~P, P.P. .. .P, P v P v .. v P,
\* P>P> .. >P, P<->P<-> .. <->P, ((..(P)..)).
ParseInputs ==
    UNION { { Repeat(<<"~">>, n) \o <<"P">>,
              <<"P">> \o Repeat(<<".", "P">>, n),
              <<"P">> \o Repeat(<<" ", "v", " ", "P">>, n),
              <<"P">> \o Repeat(<<">", "P">>, n),
              <<"P">> \o Repeat(<<"<", "-", ">", "P">>, n),
              Repeat(<<"(">>, n) \o <<"P">> \o Repeat(<<")">>, n) } : n \in NestingLevels }

FormulaInit ==
    /\ proof = Proof_new(make_mp_theorem)
    /\ undos = 0
    /\ rewrite = None
    /\ gen = None
    /\ \/ \E f \in FormulaPool :
             call = [formula |-> Some(f), input |-> None, parsed |-> None,
                     replaced |-> None]
       \/ \E input \in ParseInputs :
             call = [formula |-> None, input |-> Some(input), parsed |-> None,
                     replaced |-> None]

AsciiStringBracketed ==
    /\ call.formula # None
    /\ call.input = None
    /\ call' = [call EXCEPT !.input = Some(ascii_string_bracketed(Unwrap(call.formula)))]
    /\ UNCHANGED <<proof, undos, rewrite, gen>>

Parse ==
    /\ call.input # None
    /\ call.parsed = None
    /\ call' = [call EXCEPT !.parsed = Some(parse(Unwrap(call.input)))]
    /\ UNCHANGED <<proof, undos, rewrite, gen>>

ReplaceAtPath ==
    /\ call.formula # None
    /\ call.replaced = None
    /\ \E k \in DOMAIN subformulas_with_paths(Unwrap(call.formula)) :
          LET pair == subformulas_with_paths(Unwrap(call.formula))[k]
          IN  call' = [call EXCEPT !.replaced =
                          Some([path |-> pair[1], subformula |-> pair[2],
                                result |-> replace_at_path(Unwrap(call.formula),
                                                           pair[1], pair[2])])]
    /\ UNCHANGED <<proof, undos, rewrite, gen>>

FormulaNext ==
    \/ AsciiStringBracketed
    \/ Parse
    \/ ReplaceAtPath

FormulaSpec == FormulaInit /\ [][FormulaNext]_vars

\* C18 (as claimed): for every Formula f (over all seven node kinds, including
\* Biconditional and Contradiction), parsing the output of
\* f.ascii_string_bracketed() succeeds and yields a formula structurally
\* equal to f.
C18_RoundTrip ==
    (call.formula # None /\ call.parsed # None) =>
        /\ Unwrap(call.parsed).ok
        /\ Unwrap(call.parsed).formula = Unwrap(call.formula)

\* C19: for every formula F and every (path p, subformula G) pair yielded by
\* F.subformulas_with_paths(), F.replace_at_path(p, G) is structurally equal
\* to F.
C19_ReplaceAtPathIdentity ==
    (call.formula # None /\ call.replaced # None) =>
        Unwrap(call.replaced).result = Unwrap(call.formula)

\* replace_at_path has rebuilt a formula along a two-step path that goes right
\* and then into a negation.
C19_Witness ==
    /\ call.formula # None
    /\ call.replaced # None
    /\ Unwrap(call.replaced).path = <<"Right", "Inner">>
    /\ Kind(Unwrap(call.formula)) = "Biconditional"
    /\ Unwrap(call.formula)[2] # Unwrap(call.formula)[3][2]

\* C20 (as claimed): every formula returned by a successful Formula::parse has
\* depth at most the parser's limit (100 in the source); any input whose
\* formula would be nested deeper than the limit is rejected with a parse error.
C20_ParsedDepthBounded ==
    (call.parsed # None /\ Unwrap(call.parsed).ok) =>
        depth(Unwrap(call.parsed).formula) <= MAX_PARSE_DEPTH


(***************************************************************************)
(* The proof kernel driven on a theorem whose premises do not entail its   *)
(* conclusion: P > Q, P |- P . ~P.  Proof::new accepts any theorem, and    *)
(* the operations and their arguments are those of Spec.                   *)
(***************************************************************************)
make_unprovable_theorem ==
    [premises |-> <<Implies(P, Q), P>>, conclusion |-> And(P, Not(P))]

UnprovableInit ==
    /\ proof = Proof_new(make_unprovable_theorem)
    /\ undos = 0
    /\ rewrite = None
    /\ gen = None
    /\ call = None

UnprovableSpec == UnprovableInit /\ [][Next]_vars

\* C21 (as claimed): for every theorem and every sequence of add_line,
\* open_subproof, close_subproof and remove_last_line followed by
\* verify_proof, if check_complete() returns true then the theorem's
\* premises semantically entail its conclusion.  The stored results are
\* those of verify_proof when verify_proof would change nothing.
C21_CompleteOnlyIfEntailed ==
    [][(CheckComplete /\ proof = verify_proof(proof) /\ proof'.is_complete)
          => SemanticallyEntails(proof.theorem.premises, proof.theorem.conclusion)]_vars


(***************************************************************************)
(* Further properties of the proof kernel (checked under Spec)             *)
(***************************************************************************)
\* C24 (as claimed): remove_last_line() exactly undoes the operation that
\* appended the removed line: after close_subproof followed by
\* remove_last_line, the scope that was closed is open again, and
\* current_depth, has_open_scopes and the list of scopes equal their values
\* before the close_subproof.
C24_RemoveUndoesClose ==
    \A inp \in CloseInputs :
        current_scope(proof.scope_manager) # None =>
            LET closed == close_subproof(proof, inp[1], inp[2])
                undone == remove_last_line(closed)[1]
            IN  /\ is_open(undone.scope_manager.scopes[LastOpen(proof.scope_manager)])
                /\ current_depth(undone.scope_manager) = current_depth(proof.scope_manager)
                /\ has_open_scopes(undone.scope_manager) = has_open_scopes(proof.scope_manager)
                /\ undone.scope_manager.scopes = proof.scope_manager.scopes

\* C25 (as claimed): after verify_proof, a SubproofConclusion line is marked
\* valid only if the last line of the cited subproof is itself marked valid.
\* The stored marks are those of verify_proof when verify_proof would change
\* nothing.
C25_ConclusionRestsOnValidLine ==
    proof = verify_proof(proof) =>
        \A i \in LinesOfKind("SubproofConclusion") :
            proof.lines[i].is_valid =>
                /\ get_line(proof, proof.lines[i].justification[4]) # None
                /\ Unwrap(get_line(proof, proof.lines[i].justification[4])).is_valid

\* The lines within the innermost open scope: from its start line on.
LinesWithinCurrentScope ==
    { i \in DOMAIN proof.lines :
        proof.lines[i].line_number
            >= Unwrap(current_scope(proof.scope_manager)).start_line }

\* C27: for the innermost open scope, get_auto_close_conclusion returns, for a
\* CP scope, (assumption > formula of the last line), and for an IP scope,
\* the negation-toggle of the assumption if and only if some line within
\* that scope is a syntactic contradiction (and nothing otherwise); with no
\* open scope it returns nothing.
C27_AutoCloseConclusion ==
    LET result == get_auto_close_conclusion(proof)
    IN  IF current_scope(proof.scope_manager) = None THEN result = None
        ELSE LET scope == Unwrap(current_scope(proof.scope_manager))
             IN  IF scope.technique = CP
                 THEN result = Some(<<CP, Implies(scope.assumption,
                                          proof.lines[Len(proof.lines)].formula)>>)
                 ELSE IF \E i \in LinesWithinCurrentScope :
                            SyntacticContradiction(proof.lines[i].formula)
                      THEN result = Some(<<IP, NegationToggle(scope.assumption)>>)
                      ELSE result = None

\* An IP scope is open, one of its lines is a syntactic contradiction, and a
\* later line that is not one has been added after it.
C27_Witness ==
    /\ current_scope(proof.scope_manager) # None
    /\ Unwrap(current_scope(proof.scope_manager)).technique = IP
    /\ \E i \in LinesWithinCurrentScope :
          SyntacticContradiction(proof.lines[i].formula)
    /\ ~SyntacticContradiction(proof.lines[Len(proof.lines)].formula)
    /\ get_auto_close_conclusion(proof) # None

(***************************************************************************)
(* Properties of the pass loop of run_spec_pipeline (checked under GenSpec) *)
(***************************************************************************)
\* The step that starts a pass: run_spec_pipeline's bail-out did not fire.
PassStarted ==
    StartPass /\ gen'.pc \in {"apply_gnarly_combos", "rewrite"}

\* The depth bound the DifficultySpec asks for (theorem.rs: None = default).
spec_max_formula_depth(spec) ==
    IF spec.max_formula_depth = None THEN MAX_FORMULA_DEPTH
    ELSE Unwrap(spec.max_formula_depth)

\* C28: a pass that is started applies the gnarly-combo chains before its
\* rewrite loop exactly when the difficulty value is at least 85 or the
\* DifficultySpec sets gnarly_combos to true.
C28_GnarlyCombosWhenAsked ==
    [][PassStarted =>
          (gen'.pc = "apply_gnarly_combos"
              <=> \/ gen.config.difficulty_value >= 85
                  \/ gen.spec.gnarly_combos = Some(TRUE))]_vars

\* C29: a pass is started only while the formula's depth is below the
\* DifficultySpec's max_formula_depth and its node count below the
\* DifficultySpec's max_formula_nodes; once either bound is reached the
\* remaining passes are skipped.
C29_PassOnlyBelowBounds ==
    [][StartPass =>
          (gen'.pc # "return"
              => /\ depth(gen.formula) < spec_max_formula_depth(gen.spec)
                 /\ node_count(gen.formula) < max_nodes(gen.spec))]_vars

\* C29, the node bound alone.
NodeBoundRespected ==
    [][PassStarted => node_count(gen.formula) < max_nodes(gen.spec)]_vars

\* C30: within one pass the rewrite loop makes at most 10 x transforms_per_pass
\* attempts and at most transforms_per_pass successful rewrites, and every
\* step out of the loop ends the pass with the formula reached so far
\* (negations simplified) once the rewrites are made or the attempts used up.
C30_RewriteLoopBounded ==
    [][(gen # None /\ gen.pc = "rewrite")
          => /\ gen.attempts <= 10 * gen.spec.transforms_per_pass
             /\ gen.successful_transforms <= gen.spec.transforms_per_pass
             /\ \/ /\ gen'.pc = "rewrite"
                   /\ gen'.attempts = gen.attempts + 1
                   /\ gen'.attempts <= 10 * gen.spec.transforms_per_pass
                   /\ gen'.successful_transforms <= gen.spec.transforms_per_pass
                \/ /\ gen'.pc = "pass"
                   /\ gen'.pass = gen.pass + 1
                   /\ gen'.formula = simplify_negations(gen.formula)
                   /\ \/ gen.successful_transforms = gen.spec.transforms_per_pass
                      \/ gen.attempts = 10 * gen.spec.transforms_per_pass]_vars

\* C30 witness: the loop of a pass that asks for two rewrites has made both
\* and is about to end.
C30_Witness ==
    /\ gen # None
    /\ gen.pc = "rewrite"
    /\ gen.spec.transforms_per_pass = 2
    /\ gen.successful_transforms = 2
    /\ gen.attempts = 2
    /\ gen.formula # wrap_as_conditional(gen.premises, gen.conclusion)

\* Every attempt of the rewrite loop is a successful rewrite.
EveryAttemptSucceeds ==
    [][(gen # None /\ gen.pc = "rewrite" /\ gen'.pc = "rewrite")
          => gen'.successful_transforms = gen.successful_transforms + 1]_vars

(***************************************************************************)
(* The verifier on rule lines: a Proof over one of several theorems, to     *)
(* which subproofs and one Inference or Equivalence line are added, and     *)
(* which ProofVerifier::verify_proof marks.                                 *)
(***************************************************************************)
R == Atom("R")

\* Upper bound on the number of Inference and Equivalence lines of the proof.
MaxRuleLines == 1

\* Premise lists that give every inference rule and every equivalence rule a
\* line to apply to; P & P holds the same subformula twice.
VerifierTheorems ==
    { [premises |-> prem, conclusion |-> Q] : prem \in
        { <<Implies(P, Q), P>>,
          <<Implies(P, Q), Not(Q)>>,
          <<Or(P, Q), Not(P)>>,
          <<Implies(P, Q), Implies(Q, R)>>,
          <<Or(P, Q), Implies(P, R), Implies(Q, R)>>,
          <<And(P, P), Not(And(P, Q))>>,
          <<Not(P), P>>,
          <<Biconditional(P, Q), Implies(And(P, Q), R)>>,
          <<And(P, Or(Q, R)), And(And(P, Q), R)>> } }

VerifierInit ==
    /\ \E theorem \in VerifierTheorems : proof = Proof_new(theorem)
    /\ undos = 0
    /\ rewrite = None
    /\ gen = None
    /\ call = None

rule_lines(p) ==
    Cardinality({ i \in DOMAIN p.lines :
                    Kind(p.lines[i].justification) \in {"Inference", "Equivalence"} })

\* The formulas offered for an Inference line: what the rule yields from the
\* cited lines (Q as the formula added by Addition), and ~P, which it does not.
inference_candidates(rule, referenced_lines, p) ==
    IF \E k \in DOMAIN referenced_lines : get_line(p, referenced_lines[k]) = None
    THEN {Not(P)}
    ELSE Range(all_conclusions(rule,
                   [k \in DOMAIN referenced_lines |->
                       Unwrap(get_line(p, referenced_lines[k])).formula],
                   Some(Q)))
            \cup {Not(P)}

\* add_line(formula, Justification::Inference { rule, lines })
AddInferenceLine ==
    /\ Len(proof.lines) < MaxLines
    /\ rule_lines(proof) < MaxRuleLines
    /\ \E rule \in InferenceRules :
          \E referenced_lines \in [1 .. premise_count(rule) -> 1 .. Len(proof.lines) + 1] :
             \E formula \in inference_candidates(rule, referenced_lines, proof) :
                proof' = add_line(proof, formula, Inference(rule, referenced_lines))
    /\ UNCHANGED <<undos, rewrite, gen, call>>

\* The formulas offered for an Equivalence line citing source: the forms of
\* the whole formula, the rewrites of one occurrence of a subformula (the
\* generator's step), the rewrites of a subformula wherever it occurs, and
\* the negation of the source.
equivalence_candidates(rule, source) ==
    LET subs == Range(subformulas_with_paths(source))
    IN  Range(equivalent_forms(rule, source))
           \cup UNION { { replace_at_path(source, sp[1], e) :
                            e \in Range(equivalent_forms(rule, sp[2])) } : sp \in subs }
           \cup UNION { { replace_subformula(source, sp[2], e) :
                            e \in Range(equivalent_forms(rule, sp[2])) } : sp \in subs }
           \cup {Not(source)}

\* add_line(formula, Justification::Equivalence { rule, line })
AddEquivalenceLine ==
    /\ Len(proof.lines) < MaxLines
    /\ rule_lines(proof) < MaxRuleLines
    /\ \E k \in DOMAIN EquivalenceRules :
          \E ref_line \in 0 .. Len(proof.lines) + 1 :
             \E formula \in IF get_line(proof, ref_line) = None THEN {P}
                            ELSE equivalence_candidates(EquivalenceRules[k],
                                     Unwrap(get_line(proof, ref_line)).formula) :
                proof' = add_line(proof, formula,
                                  Equivalence(EquivalenceRules[k], ref_line))
    /\ UNCHANGED <<undos, rewrite, gen, call>>

VerifierNext ==
    \/ AddInferenceLine
    \/ AddEquivalenceLine
    \/ OpenSubproof
    \/ CloseSubproof
    \/ VerifyProof

VerifierSpec == VerifierInit /\ [][VerifierNext]_vars

(***************************************************************************)
(* Properties of the verifier on rule lines (checked under VerifierSpec)    *)
(***************************************************************************)
EquivalenceLines ==
    { i \in DOMAIN proof.lines : Kind(proof.lines[i].justification) = "Equivalence" }

\* The line cited by an Equivalence line exists, is earlier, is accessible
\* and is marked valid.
CitedLineUsable(line) ==
    LET ref_line == line.justification[3]
    IN  /\ get_line(proof, ref_line) # None
        /\ ref_line < line.line_number
        /\ is_line_accessible(proof, line.line_number, ref_line)
        /\ Unwrap(get_line(proof, ref_line)).is_valid

\* The positions at which s occurs in f.
RECURSIVE paths_of(_, _)
paths_of(subs, s) ==
    IF subs = <<>> THEN <<>>
    ELSE (IF Head(subs)[2] = s THEN <<Head(subs)[1]>> ELSE <<>>)
            \o paths_of(Tail(subs), s)

RECURSIVE replace_at_paths(_, _, _)
replace_at_paths(f, paths, e) ==
    IF paths = <<>> THEN f
    ELSE replace_at_paths(replace_at_path(f, Head(paths), e), Tail(paths), e)

\* f with the subformula s replaced by e wherever s occurs.
ReplaceSubformula(f, s, e) ==
    replace_at_paths(f, paths_of(subformulas_with_paths(f), s), e)

\* target is a form of source under rule, or source with a subformula s
\* replaced by a form of s.
ReachableByRule(source, target, rule) ==
    \/ target \in Range(equivalent_forms(rule, source))
    \/ \E sp \in Range(subformulas_with_paths(source)) :
          \E e \in Range(equivalent_forms(rule, sp[2])) :
             target = ReplaceSubformula(source, sp[2], e)

\* target is source with the subformula at one position rewritten by rule:
\* the step of the generator's try_apply_random_equivalence.
SingleOccurrenceRewrite(source, target, rule) ==
    \E sp \in Range(subformulas_with_paths(source)) :
       \E e \in Range(equivalent_forms(rule, sp[2])) :
          target = replace_at_path(source, sp[1], e)

\* C22: verify_line marks an Equivalence{rule, line} line valid exactly when
\* the cited line exists, is earlier, is accessible and is valid, and the
\* line's formula is a member of rule.equivalent_forms(source) or the source
\* with some subformula s replaced by a member of rule.equivalent_forms(s).
C22_EquivalenceLineValidIff ==
    \A i \in EquivalenceLines :
        LET line == proof.lines[i]
        IN  verify_line(line, proof).is_valid
               <=> /\ CitedLineUsable(line)
                   /\ ReachableByRule(
                          Unwrap(get_line(proof, line.justification[3])).formula,
                          line.formula, line.justification[2])

\* C22 witness: verify_proof has marked an Equivalence line valid whose
\* formula is the cited formula with a subformula rewritten at both places
\* where it occurs.
C22_Witness ==
    /\ proof = verify_proof(proof)
    /\ \E i \in EquivalenceLines :
          LET line == proof.lines[i]
          IN  /\ line.is_valid
              /\ CitedLineUsable(line)
              /\ line.formula \notin
                     Range(equivalent_forms(line.justification[2],
                         Unwrap(get_line(proof, line.justification[3])).formula))
              /\ ~SingleOccurrenceRewrite(
                      Unwrap(get_line(proof, line.justification[3])).formula,
                      line.formula, line.justification[2])

\* C23: a line whose formula rewrites a single occurrence of a subformula of
\* an earlier, accessible, valid line with rule R is accepted with the
\* justification Equivalence{R, that line}, whether or not the subformula
\* occurs elsewhere in the cited formula.
C23_SingleOccurrenceAccepted ==
    \A i \in EquivalenceLines :
        LET line == proof.lines[i]
        IN  (/\ CitedLineUsable(line)
             /\ SingleOccurrenceRewrite(
                    Unwrap(get_line(proof, line.justification[3])).formula,
                    line.formula, line.justification[2]))
               => verify_line(line, proof).is_valid

RuleLines ==
    { i \in DOMAIN proof.lines :
        Kind(proof.lines[i].justification) \in {"Inference", "Equivalence"} }

\* The formulas of the lines a rule line cites.
CitedFormulas(line) ==
    LET refs == IF Kind(line.justification) = "Inference"
                THEN line.justification[3] ELSE <<line.justification[3]>>
    IN  [k \in DOMAIN refs |-> Unwrap(get_line(proof, refs[k])).formula]

\* C26: the formula of every line that verify_line marks valid with an
\* Inference or Equivalence justification is semantically entailed by the
\* formulas of the lines it cites, and for Equivalence has the truth table of
\* the cited formula.
C26_ValidRuleLineEntailed ==
    \A i \in RuleLines :
        LET line == proof.lines[i]
        IN  verify_line(line, proof).is_valid
               => /\ SemanticallyEntails(CitedFormulas(line), line.formula)
                  /\ Kind(line.justification) = "Equivalence"
                        => SameTruthTable(CitedFormulas(line)[1], line.formula)

\* C26 witness: verify_proof has marked an Inference line valid.
C26_Witness ==
    /\ proof = verify_proof(proof)
    /\ \E i \in RuleLines :
          /\ Kind(proof.lines[i].justification) = "Inference"
          /\ proof.lines[i].justification[2] = "ConstructiveDilemma"
          /\ proof.lines[i].is_valid

=============================================================================
